---- MODULE Spec2Model ----
(***************************************************************************)
(* Verification model of the introspection-and-control loop of             *)
(* meta-analytical-pfc: FocusController, ConceptRegistry, compute_signals, *)
(* TelemetryLogger, ActivationCapture and the probe boundary of            *)
(* MetaAnalyticalPFC.process.                                              *)
(*                                                                         *)
(* Python floats are modelled as exact rationals <<n, d>> (d > 0, lowest   *)
(* terms); int() is truncation toward zero, as in Python.                  *)
(***************************************************************************)
EXTENDS Integers, Sequences, FiniteSets, TLC

VARIABLES
    fc,          \* FocusController: the configuration fields set by __init__
    metrics,     \* the metrics dict passed to the last plan() call
    focus_plan,  \* outcome of the last plan() call
    pcF,         \* "idle" before the first plan() call, "planned" after one
    registry,    \* ConceptRegistry: concepts, rules and harmony_key of the ontology
    health_floor,\* the configured health floor handed to compute_signals
    sig_in,      \* arguments of the last registry / compute_signals call
    dissonance_out, \* <<score, events>> returned by the last evaluate_dissonance call
    bundle,      \* SignalBundle returned by the last compute_signals call
    detected,    \* the list returned by the last detect_concepts call
    pcS,         \* "idle", then "evaluated", "computed" or "detected" after the call
    cap_config,  \* ActivationCaptureConfig and the layer stack of the hosted model
    cap_model,   \* ActivationCapture.model / .tokenizer: "none" or "loaded"
    load_count,  \* number of model loads (from_pretrained) performed so far
    model_hooks, \* forward hooks registered on the layers of the loaded model
    pcC,         \* per caller: position inside capture()
    ncalls,      \* per caller: number of capture() calls started
    cprompt,     \* per caller: the prompt argument
    chooks,      \* per caller: the local list hooks
    captured,    \* per caller: the local dict captured (the trace's activations)
    cresult,     \* per caller: how the last capture() call ended
    proc_cfg,    \* MetaAnalyticalPFC: activation_capture settings of local_model.yaml
    pcP,         \* position inside process()
    pquery,      \* process(): the query
    pmode,       \* process(): the ReasoningMode triage returned
    tda_result,  \* process(): the Optional[TDAResult] of the activation probe
    probe_error, \* the exception raised inside the probe's try block, or "none"
    preflight_signals, \* process(): the SignalBundle of the preflight stage
    emitted,     \* the TelemetryEvents handed to TelemetryLogger.emit, in order
    exec_in,     \* _executive_reasoning: base temperature, base max_tokens, CAE temperature_scale
    exec_locals, \* _executive_reasoning: temp, max_tokens and the loop variable i
    gen_calls,   \* the generation calls made for the query, with their arguments
    logger,      \* TelemetryLogger: flush_immediately
    file,        \* content of the log file at TelemetryLogger.path
    file0,       \* content of the log file when the loggers were constructed
    emit_log,    \* the events passed to emit(), in call order
    pcT,         \* per writer: position inside emit()
    wbuf,        \* per writer: bytes its file object has not handed to the OS yet
    tda_in,      \* arguments of the build_point_cloud / compute_tda call
    tda_out,     \* what the call returned or raised
    tda_first,   \* what the first of two calls with the same arguments returned
    pcTda,        \* "idle", then "cloud" or "tda" after the call
    chord_in,    \* the two concept lists A and B handed to chord_product
    chord_out,   \* chord_product's results so far, by argument: "a", "b", "ab" (A + B)
    cae,         \* ContextualAllostasisEngine: the fields set by __init__ and evaluate
    cae_text,    \* the text of the last evaluate() call
    cae_out,     \* the CAEOutput of the last evaluate() call
    cae_calls,   \* number of evaluate() calls made so far
    hook_cfg,    \* hook_fn: capture_tokens, token_stride and the layer configuration
    hook_seq,    \* hook_fn: sequence length of the output of the last forward pass
    hook_passes, \* number of forward passes of the generation call so far
    hook_captured, \* the dict captured: layer index -> the kept positions
    pcH,         \* "registered", "generating", then "returned"
    qpc,         \* per query: position of its process() call
    qmode,       \* per query: the ReasoningMode triage returned
    qprobed,     \* per query: _run_activation_probe has been called
    event_log    \* query_id and stage of the events handed to emit, in call order

focusVars == <<fc, metrics, focus_plan, pcF>>
signalVars == <<registry, health_floor, sig_in, dissonance_out, bundle,
                detected, pcS>>
captureVars == <<cap_config, cap_model, load_count, model_hooks, pcC, ncalls,
                 cprompt, chooks, captured, cresult>>

processVars == <<proc_cfg, pcP, pquery, pmode, tda_result, probe_error,
                 preflight_signals, emitted, exec_in, exec_locals, gen_calls>>

telemetryVars == <<logger, file, file0, emit_log, pcT, wbuf>>

tdaVars == <<tda_in, tda_out, tda_first, pcTda>>

chordVars == <<chord_in, chord_out>>

caeVars == <<cae, cae_text, cae_out, cae_calls>>

hookVars == <<hook_cfg, hook_seq, hook_passes, hook_captured, pcH>>

queryVars == <<qpc, qmode, qprobed, event_log>>

vars == <<focusVars, signalVars, captureVars, processVars, telemetryVars,
          tdaVars, chordVars, caeVars, hookVars, queryVars>>

-----------------------------------------------------------------------------
(* Bounds of the model                                                     *)

\* depths of the enumerated configurations range over -MaxNegDepth..MaxDepth
MaxNegDepth == 2
MaxDepth == 4

\* pipeline instances writing to one telemetry log, emit() calls in all, and
\* the tokens a short write(2) transfers
NumWriters == 2
MaxEmits == 2
WriteBlock == 8

\* layers of an activation map and rows of one layer
MaxLayers == 2
MaxRows == 3

\* concurrent callers of one ActivationCapture, and capture() calls in all
NumCallers == 2
MaxCalls == 2

-----------------------------------------------------------------------------
(* Exact rational arithmetic standing for Python float arithmetic          *)

RECURSIVE Gcd(_, _)
Gcd(a, b) == IF b = 0 THEN a ELSE Gcd(b, a % b)

Abs(x) == IF x < 0 THEN -x ELSE x

\* the rational n/d in lowest terms with a positive denominator (d # 0)
Rat(n, d) ==
    LET g == Gcd(Abs(n), Abs(d))
        s == IF d < 0 THEN -1 ELSE 1
    IN  <<(s * n) \div g, (s * d) \div g>>

RInt(n) == <<n, 1>>
RAdd(a, b) == Rat(a[1] * b[2] + b[1] * a[2], a[2] * b[2])
RSub(a, b) == Rat(a[1] * b[2] - b[1] * a[2], a[2] * b[2])
RMul(a, b) == Rat(a[1] * b[1], a[2] * b[2])
\* a / b for b # 0 (Python raises ZeroDivisionError when b = 0)
RDiv(a, b) == Rat(a[1] * b[2], a[2] * b[1])
RLe(a, b) == a[1] * b[2] <= b[1] * a[2]
RLt(a, b) == a[1] * b[2] < b[1] * a[2]
\* Python's min(a, b) and max(a, b): the first argument wins a tie
RMin(a, b) == IF RLt(b, a) THEN b ELSE a
RMax(a, b) == IF RLt(a, b) THEN b ELSE a
\* Python's int(x): truncation toward zero
RTrunc(a) == IF a[1] >= 0 THEN a[1] \div a[2] ELSE -((-a[1]) \div a[2])
\* f"{x:.2f}": the number of hundredths nearest to x
Fmt2(a) ==
    LET h == RMul(a, RInt(100))
    IN  IF h[1] >= 0 THEN (2 * h[1] + h[2]) \div (2 * h[2])
        ELSE -((2 * (-h[1]) + h[2]) \div (2 * h[2]))

-----------------------------------------------------------------------------
(* Python floats as IEEE 754 binary64 values, for the places where the     *)
(* rounding of an operation decides the outcome. A float is                *)
(* [neg, man, exp] with value (-1)^neg * man * 2^exp, man a natural number *)
(* of exactly 53 bits (or zero), held as a sequence of 15-bit limbs, least *)
(* significant first. Every operation rounds to nearest, ties to even.     *)
(* Subnormal numbers, infinities and NaN are outside the values used.      *)

LimbBits == 15
LimbBase == 32768
MantissaBits == 53

\* F(x) and F(x, y) with the arguments evaluated once, before F is applied
Bind1(x, F(_)) == CHOOSE r \in {F(v) : v \in {x}} : TRUE
Bind2(x, y, F(_, _)) == CHOOSE r \in {F(v, w) : v \in {x}, w \in {y}} : TRUE

RECURSIVE Pow2(_)
Pow2(k) == IF k = 0 THEN 1 ELSE 2 * Pow2(k - 1)

RECURSIVE BigTrim(_)
\* without the zero limbs at the most significant end
BigTrim(a) ==
    IF a = <<>> THEN <<>>
    ELSE IF a[Len(a)] = 0 THEN BigTrim(SubSeq(a, 1, Len(a) - 1)) ELSE a

RECURSIVE BigFromInt(_)
BigFromInt(n) ==
    IF n = 0 THEN <<>> ELSE <<n % LimbBase>> \o BigFromInt(n \div LimbBase)

RECURSIVE BigToInt(_)
BigToInt(a) ==
    IF a = <<>> THEN 0 ELSE Head(a) + LimbBase * BigToInt(Tail(a))

RECURSIVE BigCmpFrom(_, _, _)
BigCmpFrom(a, b, i) ==
    IF i = 0 THEN 0
    ELSE IF a[i] < b[i] THEN -1
    ELSE IF a[i] > b[i] THEN 1
    ELSE BigCmpFrom(a, b, i - 1)

\* -1, 0 or 1 as a < b, a = b or a > b
BigCmp(a, b) ==
    IF Len(a) < Len(b) THEN -1
    ELSE IF Len(a) > Len(b) THEN 1
    ELSE BigCmpFrom(a, b, Len(a))

RECURSIVE BigAddCarry(_, _, _)
BigAddCarry(a, b, carry) ==
    IF a = <<>> /\ b = <<>> THEN (IF carry = 0 THEN <<>> ELSE <<carry>>)
    ELSE LET x == IF a = <<>> THEN 0 ELSE Head(a)
             y == IF b = <<>> THEN 0 ELSE Head(b)
             t == x + y + carry
         IN  <<t % LimbBase>>
             \o BigAddCarry(IF a = <<>> THEN <<>> ELSE Tail(a),
                            IF b = <<>> THEN <<>> ELSE Tail(b), t \div LimbBase)

BigAdd(a, b) == BigAddCarry(a, b, 0)

RECURSIVE BigSubBorrow(_, _, _)
BigSubBorrow(a, b, borrow) ==
    IF a = <<>> THEN <<>>
    ELSE LET y == IF b = <<>> THEN 0 ELSE Head(b)
             t == Head(a) - y - borrow
         IN  <<IF t < 0 THEN t + LimbBase ELSE t>>
             \o BigSubBorrow(Tail(a), IF b = <<>> THEN <<>> ELSE Tail(b),
                             IF t < 0 THEN 1 ELSE 0)

\* a - b for a >= b
BigSub(a, b) == BigTrim(BigSubBorrow(a, b, 0))

RECURSIVE BigMulLimb(_, _, _)
\* a * k + carry for a limb k
BigMulLimb(a, k, carry) ==
    IF a = <<>> THEN (IF carry = 0 THEN <<>> ELSE <<carry>>)
    ELSE LET t == Head(a) * k + carry
         IN  <<t % LimbBase>> \o BigMulLimb(Tail(a), k, t \div LimbBase)

RECURSIVE BigMul(_, _)
BigMul(a, b) ==
    IF a = <<>> \/ b = <<>> THEN <<>>
    ELSE BigTrim(BigAdd(BigMulLimb(a, Head(b), 0), <<0>> \o BigMul(a, Tail(b))))

\* a * 2^n
BigShl(a, n) ==
    IF a = <<>> THEN <<>>
    ELSE [i \in 1..(n \div LimbBits) |-> 0]
         \o BigTrim(BigMulLimb(a, Pow2(n % LimbBits), 0))

\* a \div 2^n
BigShr(a, n) ==
    LET k == n \div LimbBits
        r == Pow2(n % LimbBits)
        b == IF k >= Len(a) THEN <<>> ELSE SubSeq(a, k + 1, Len(a))
    IN  BigTrim([i \in 1..Len(b) |->
                    (b[i] \div r)
                    + (IF i < Len(b) THEN (b[i + 1] % r) * (LimbBase \div r) ELSE 0)])

\* a % 2^n
BigLow(a, n) ==
    LET k == n \div LimbBits
    IN  IF k >= Len(a) THEN a
        ELSE BigTrim(SubSeq(a, 1, k) \o <<a[k + 1] % Pow2(n % LimbBits)>>)

RECURSIVE BitLen(_)
BitLen(n) == IF n = 0 THEN 0 ELSE 1 + BitLen(n \div 2)

BigBitLen(a) ==
    IF a = <<>> THEN 0 ELSE LimbBits * (Len(a) - 1) + BitLen(a[Len(a)])

\* bit i of a, bit 0 the least significant
BigBit(a, i) ==
    LET k == i \div LimbBits + 1
    IN  IF k > Len(a) THEN 0 ELSE (a[k] \div Pow2(i % LimbBits)) % 2

DivRunBits == 16

RECURSIVE BigDivLoop(_, _, _, _, _, _)
\* schoolbook division bit by bit, over the bits i - 1 down to stop of n
BigDivLoop(n, d, i, stop, q, rem) ==
    IF i <= stop THEN <<q, rem>>
    ELSE Bind1(BigMulLimb(rem, 2, BigBit(n, i - 1)),
               LAMBDA r2 :
                 IF BigCmp(r2, d) >= 0
                 THEN Bind2(BigMulLimb(q, 2, 1), BigSub(r2, d),
                            LAMBDA q1, rem1 : BigDivLoop(n, d, i - 1, stop, q1, rem1))
                 ELSE Bind1(BigMulLimb(q, 2, 0),
                            LAMBDA q1 : BigDivLoop(n, d, i - 1, stop, q1, r2)))

RECURSIVE BigDivRuns(_, _, _, _)
\* the division over the bits below i, in runs of DivRunBits bits
BigDivRuns(n, d, i, qr) ==
    IF i = 0 THEN qr
    ELSE LET stop == IF i > DivRunBits THEN i - DivRunBits ELSE 0
         IN  Bind1(BigDivLoop(n, d, i, stop, qr[1], qr[2]),
                   LAMBDA next : BigDivRuns(n, d, stop, next))

\* <<n \div d, n % d>> for d # 0
BigDivMod(n, d) ==
    Bind2(n, d, LAMBDA nv, dv : BigDivRuns(nv, dv, BigBitLen(nv), << <<>>, <<>> >>))

Float(neg, man, exp) == [neg |-> neg, man |-> man, exp |-> exp]

FZero == Float(FALSE, <<>>, 0)

\* the float nearest to (-1)^neg * (m + s) * 2^e, where 0 < s < 1 if sticky
\* and s = 0 otherwise; ties go to the even mantissa
FRoundValue(neg, m, e, sticky) ==
    LET len == BigBitLen(m)
    IN  IF len = 0 THEN FZero
        ELSE IF len <= MantissaBits
        THEN Float(neg, BigShl(m, MantissaBits - len), e - (MantissaBits - len))
        ELSE LET sh == len - MantissaBits
                 q == BigShr(m, sh)
                 c == BigCmp(BigLow(m, sh), BigShl(<<1>>, sh - 1))
                 up == c > 0 \/ (c = 0 /\ (sticky \/ BigBit(q, 0) = 1))
                 q2 == IF up THEN BigAdd(q, <<1>>) ELSE q
             IN  IF BigBitLen(q2) > MantissaBits
                 THEN Float(neg, BigShr(q2, 1), e + sh + 1)
                 ELSE Float(neg, q2, e + sh)

FRound(neg, m, e, sticky) ==
    Bind1(m, LAMBDA mv : FRoundValue(neg, mv, e, sticky))

\* float(n) for an int n
FFromInt(n) == FRound(n < 0, BigFromInt(Abs(n)), 0, FALSE)

FNeg(x) == IF x.man = <<>> THEN x ELSE Float(~x.neg, x.man, x.exp)

FAddValues(x, y) ==
    IF x.man = <<>> THEN y
    ELSE IF y.man = <<>> THEN x
    ELSE LET e == IF x.exp < y.exp THEN x.exp ELSE y.exp
             mx == BigShl(x.man, x.exp - e)
             my == BigShl(y.man, y.exp - e)
             c == BigCmp(mx, my)
         IN  IF x.neg = y.neg THEN FRound(x.neg, BigAdd(mx, my), e, FALSE)
             ELSE IF c = 0 THEN FZero
             ELSE IF c > 0 THEN FRound(x.neg, BigSub(mx, my), e, FALSE)
             ELSE FRound(y.neg, BigSub(my, mx), e, FALSE)

\* x + y
FAdd(x, y) == Bind2(x, y, FAddValues)

\* x - y
FSub(x, y) == FAdd(x, FNeg(y))

FMulValues(x, y) ==
    IF x.man = <<>> \/ y.man = <<>> THEN FZero
    ELSE FRound(x.neg # y.neg, BigMul(x.man, y.man), x.exp + y.exp, FALSE)

\* x * y
FMul(x, y) == Bind2(x, y, FMulValues)

\* 56 or 57 quotient bits, and the remainder as sticky bit
FDivValues(x, y) ==
    IF x.man = <<>> THEN FZero
    ELSE Bind1(BigDivMod(BigShl(x.man, MantissaBits + 3), y.man),
               LAMBDA qr : FRound(x.neg # y.neg, qr[1],
                                  x.exp - y.exp - (MantissaBits + 3), qr[2] # <<>>))

\* x / y for y # 0
FDiv(x, y) == Bind2(x, y, FDivValues)

\* x < y
FLt(x, y) == Bind1(FSub(x, y), LAMBDA d : d.man # <<>> /\ d.neg)

\* x <= y
FLe(x, y) == ~FLt(y, x)

\* min(x, y) of Python: x unless y < x
FMin(x, y) == Bind2(x, y, LAMBDA v, w : IF FLt(w, v) THEN w ELSE v)

\* int(x): truncation toward zero
FTrunc(x) ==
    Bind1(x, LAMBDA v :
        LET m == IF v.exp >= 0 THEN BigShl(v.man, v.exp) ELSE BigShr(v.man, -v.exp)
        IN  IF v.neg THEN -BigToInt(m) ELSE BigToInt(m))

\* the float a decimal literal or a config value n/d denotes
FFromRat(r) == FDiv(FFromInt(r[1]), FFromInt(r[2]))

-----------------------------------------------------------------------------
(* FocusController (src/src/control/focus_controller.py)                   *)

\* a FocusPlan; raised # "none" stands for plan() raising instead of returning
FocusPlan(depth, temperature_scale, max_tokens_scale, reason) ==
    [raised |-> "none", depth |-> depth,
     temperature_scale |-> temperature_scale,
     max_tokens_scale |-> max_tokens_scale, reason |-> reason]

PlanRaises(what) ==
    [raised |-> what, depth |-> 0, temperature_scale |-> RInt(0),
     max_tokens_scale |-> RInt(0), reason |-> <<>>]

RECURSIVE cf_loop(_, _)
cf_loop(n, x) ==
    IF n <= 0 THEN x
    ELSE cf_loop(n - 1, RAdd(RInt(1), RDiv(RInt(1), RAdd(RInt(n), x))))

\* for n in range(depth, 0, -1): x = 1.0 + 1.0 / (n + x)
continued_fraction(depth) == cf_loop(depth, RInt(1))

lerp(a, b, t) == RAdd(a, RMul(RSub(b, a), t))

\* the enabled branch of plan()
plan_enabled(c, m) ==
    LET entropy == m.entropy_score
        dissonance == m.dissonance_score
        difficulty == RAdd(RMul(c.entropy_weight, entropy),
                           RMul(c.dissonance_weight, dissonance))
        raw == RTrunc(RAdd(RInt(c.min_depth),
                           RMul(difficulty, RInt(c.max_depth - c.min_depth))))
        inner == IF c.max_depth < raw THEN c.max_depth ELSE raw
        depth == IF c.min_depth < inner THEN inner ELSE c.min_depth
    IN  IF depth + 1 = 0
        THEN PlanRaises("ZeroDivisionError")
        ELSE LET cf_value == continued_fraction(depth)
                 cf_scaled == RMin(RInt(1), RDiv(cf_value, RInt(depth + 1)))
             IN  FocusPlan(depth,
                           lerp(c.throttle_temperature_max,
                                c.throttle_temperature_min, cf_scaled),
                           lerp(c.max_tokens_scale_min,
                                c.max_tokens_scale_max, cf_scaled),
                           <<"entropy", Fmt2(entropy), "dissonance",
                             Fmt2(dissonance), "depth", depth>>)

\* mutant: the early return of the disabled controller is missing
plan_without_disabled_return(c, m) == plan_enabled(c, m)

plan(c, m) ==
    IF ~c.enabled
    THEN FocusPlan(c.base_depth, RInt(1), RInt(1), <<"entropy_valve_disabled">>)
    ELSE plan_enabled(c, m)

\* FocusController.__init__ with its default weights and scale ranges
FocusController(enabled, min_depth, max_depth, base_depth, ew, dw) ==
    [enabled |-> enabled, min_depth |-> min_depth, max_depth |-> max_depth,
     base_depth |-> base_depth, entropy_weight |-> ew, dissonance_weight |-> dw,
     throttle_temperature_min |-> Rat(1, 10),
     throttle_temperature_max |-> Rat(6, 10),
     max_tokens_scale_min |-> RInt(1),
     max_tokens_scale_max |-> Rat(18, 10)]

\* the default weights (0.6, 0.4) and two other settings, one with a negative weight
WeightChoices == {<<Rat(6, 10), Rat(4, 10)>>, <<RInt(2), RInt(1)>>,
                  <<Rat(-1, 2), RInt(0)>>}

\* scores passed in the metrics dict: in and outside [0, 1]
ScoreChoices == {Rat(-1, 2), RInt(0), Rat(1, 2), Rat(9, 10), RInt(1), RInt(2)}

DepthRange == (-MaxNegDepth)..MaxDepth

\* configurations with min_depth <= base_depth <= max_depth
FocusConfigs ==
    {FocusController(en, t[1], t[3], t[2], w[1], w[2]) :
        en \in BOOLEAN, w \in WeightChoices,
        t \in {u \in DepthRange \X DepthRange \X DepthRange :
                 u[1] <= u[2] /\ u[2] <= u[3]}}

\* FocusController.__init__ with the throttle and token scale ranges given
FocusControllerWith(enabled, min_depth, max_depth, base_depth, temperature, tokens) ==
    [enabled |-> enabled, min_depth |-> min_depth, max_depth |-> max_depth,
     base_depth |-> base_depth,
     entropy_weight |-> Rat(6, 10), dissonance_weight |-> Rat(4, 10),
     throttle_temperature_min |-> temperature[1],
     throttle_temperature_max |-> temperature[2],
     max_tokens_scale_min |-> tokens[1],
     max_tokens_scale_max |-> tokens[2]]

RECURSIVE cf_loop64(_, _)
\* for n in range(depth, 0, -1): x = 1.0 + 1.0 / (n + x), in binary64
cf_loop64(n, x) ==
    IF n <= 0 THEN x
    ELSE cf_loop64(n - 1, FAdd(FFromInt(1),
                               FDiv(FFromInt(1), FAdd(FFromInt(n), x))))

continued_fraction64(depth) == cf_loop64(depth, FFromInt(1))

\* a + (b - a) * t, each operation rounded
lerp64(a, b, t) == Bind2(a, b, LAMBDA av, bv : FAdd(av, FMul(FSub(bv, av), t)))

\* the depth plan() settles on, its float operations carried out in binary64
depth64(c, m) ==
    LET entropy == FFromRat(m.entropy_score)
        dissonance == FFromRat(m.dissonance_score)
        difficulty == FAdd(FMul(FFromRat(c.entropy_weight), entropy),
                           FMul(FFromRat(c.dissonance_weight), dissonance))
    IN  Bind1(FTrunc(FAdd(FFromInt(c.min_depth),
                          FMul(difficulty, FFromInt(c.max_depth - c.min_depth)))),
              LAMBDA raw :
                LET inner == IF c.max_depth < raw THEN c.max_depth ELSE raw
                IN  IF c.min_depth < inner THEN inner ELSE c.min_depth)

\* plan() with every float operation carried out in binary64; the config
\* values and the scores are the floats their decimal literals denote
plan64(c, m) ==
    IF ~c.enabled
    THEN FocusPlan(c.base_depth, FFromInt(1), FFromInt(1), <<"entropy_valve_disabled">>)
    ELSE Bind1(depth64(c, m), LAMBDA depth :
           IF depth + 1 = 0
           THEN PlanRaises("ZeroDivisionError")
           ELSE Bind1(FMin(FFromInt(1),
                           FDiv(continued_fraction64(depth), FFromInt(depth + 1))),
                      LAMBDA cf_scaled :
                        FocusPlan(depth,
                                  lerp64(FFromRat(c.throttle_temperature_max),
                                         FFromRat(c.throttle_temperature_min),
                                         cf_scaled),
                                  lerp64(FFromRat(c.max_tokens_scale_min),
                                         FFromRat(c.max_tokens_scale_max),
                                         cf_scaled),
                                  <<"entropy", Fmt2(m.entropy_score), "dissonance",
                                    Fmt2(m.dissonance_score), "depth", depth>>)))

\* <<throttle_temperature_min, throttle_temperature_max>>: the defaults, a
\* range with binary fractions as ends, a single point, and a reversed range
TemperatureRanges == {<<Rat(1, 10), Rat(6, 10)>>, <<Rat(1, 4), Rat(1, 2)>>,
                      <<Rat(3, 10), Rat(3, 10)>>, <<Rat(6, 10), Rat(1, 10)>>}

\* <<max_tokens_scale_min, max_tokens_scale_max>>: the defaults and a range below 1
TokenRanges == {<<RInt(1), Rat(18, 10)>>, <<Rat(7, 10), Rat(9, 10)>>}

\* scores in [0, 1]
UnitScores == {RInt(0), Rat(1, 2), Rat(9, 10), RInt(1)}

\* <<min_depth, max_depth>>: ranges that start at depth 0, the range of the
\* tests' shape, and one that starts below 0
DepthRanges == {<<0, 0>>, <<0, 1>>, <<0, MaxDepth>>, <<2, MaxDepth>>, <<-1, 0>>}

\* configurations with base_depth = min_depth
FocusRangeConfigs ==
    {FocusControllerWith(en, t[1], t[2], t[1], temperature, tokens) :
        en \in BOOLEAN, t \in DepthRanges,
        temperature \in TemperatureRanges, tokens \in TokenRanges}

-----------------------------------------------------------------------------
(* ConceptRegistry (src/src/monitoring/concepts.py)                        *)

\* every concept name of the model, in the order Python's sorted() gives
AllNames == <<"Authorization", "Deception", "Execute", "Truth", "Unlisted">>

NameSet == {AllNames[i] : i \in DOMAIN AllNames}

\* sorted(S) for a set S of names
SortedNames(S) == SelectSeq(AllNames, LAMBDA n : n \in S)

SeqToSet(q) == {q[i] : i \in DOMAIN q}

\* str.lower() on the words of the model
Lower(w) ==
    CASE w = "Execute" -> "execute"
      [] w = "AUTHORIZED" -> "authorized"
      [] w = "Truth" -> "truth"
      [] OTHER -> w

Concept(name, prime, frequency_hz, keywords, depth) ==
    [name |-> name, prime |-> prime, frequency_hz |-> frequency_hz,
     keywords |-> keywords, depth |-> depth]

RECURSIVE KeywordPairs(_)
\* the (kw.lower(), concept.name) assignments of __init__, in execution order
KeywordPairs(concepts) ==
    IF concepts = <<>> THEN <<>>
    ELSE LET c == Head(concepts)
         IN  [i \in DOMAIN c.keywords |-> <<Lower(c.keywords[i]), c.name>>]
             \o KeywordPairs(Tail(concepts))

\* self._keyword_map: a later assignment to the same keyword replaces the earlier
keyword_map(reg) ==
    LET ps == KeywordPairs(reg.concepts)
    IN  [k \in {ps[i][1] : i \in DOMAIN ps} |->
            ps[CHOOSE i \in DOMAIN ps :
                 /\ ps[i][1] = k
                 /\ \A j \in DOMAIN ps : ps[j][1] = k => j <= i][2]]

\* a text is the sequence of its words; \b...\b matches a whole word
detect_concepts(reg, text) ==
    IF text = <<>> THEN <<>>
    ELSE LET km == keyword_map(reg)
             text_lower == [i \in DOMAIN text |-> Lower(text[i])]
         IN  SortedNames({km[kw] : kw \in {k \in DOMAIN km :
                              \E i \in DOMAIN text_lower : text_lower[i] = k}})

RECURSIVE JoinTexts(_)
\* " ".join(parts)
JoinTexts(parts) ==
    IF parts = <<>> THEN <<>> ELSE Head(parts) \o JoinTexts(Tail(parts))

\* a trace is the sequence of its values; a value is the sequence of the texts
\* str() gives for it (one text, or one per value of a nested dict)
detect_concepts_from_trace(reg, reasoning_trace) ==
    IF reasoning_trace = <<>> THEN <<>>
    ELSE detect_concepts(reg,
             JoinTexts([i \in DOMAIN reasoning_trace |->
                           JoinTexts(reasoning_trace[i])]))

\* self.concepts.get(name): a one-element sequence, or <<>> for None
ConceptGet(reg, name) ==
    SelectSeq(reg.concepts, LAMBDA c : c.name = name)

\* mutant: a known concept leaves the product as it is
prime_factor_unit(got) == 1

\* the factor one loop pass of chord_product multiplies the product by
prime_factor(got) == IF got # <<>> THEN got[1].prime ELSE 1

RECURSIVE chord_product(_, _)
chord_product(reg, concepts) ==
    IF concepts = <<>> THEN 1
    ELSE prime_factor(ConceptGet(reg, Head(concepts)))
         * chord_product(reg, Tail(concepts))

RECURSIVE chord_frequencies(_, _)
chord_frequencies(reg, concepts) ==
    IF concepts = <<>> THEN <<>>
    ELSE LET got == ConceptGet(reg, Head(concepts))
         IN  (IF got # <<>> THEN <<got[1].frequency_hz>> ELSE <<>>)
             \o chord_frequencies(reg, Tail(concepts))

DissonanceEvent(rule, detail) == [rule |-> rule, detail |-> detail]

RECURSIVE RequiresEventsPerMissing(_, _)
\* mutant: one event for each missing companion instead of one per rule
RequiresEventsPerMissing(requires, concepts_set) ==
    IF requires = <<>> THEN <<>>
    ELSE LET concept == Head(requires)[1]
             required_list == Head(requires)[2]
             missing == SelectSeq(required_list, LAMBDA req : req \notin concepts_set)
         IN  (IF concept \in concepts_set
              THEN [i \in DOMAIN missing |->
                       DissonanceEvent("requires", <<concept, "missing", missing[i]>>)]
              ELSE <<>>)
             \o RequiresEventsPerMissing(Tail(requires), concepts_set)

RECURSIVE RequiresEvents(_, _)
\* the loop over self.rules.get("requires", {}).items()
RequiresEvents(requires, concepts_set) ==
    IF requires = <<>> THEN <<>>
    ELSE LET concept == Head(requires)[1]
             required_list == Head(requires)[2]
             missing == SelectSeq(required_list, LAMBDA req : req \notin concepts_set)
         IN  (IF concept \in concepts_set /\ missing # <<>>
              THEN <<DissonanceEvent("requires", <<concept, "missing">> \o missing)>>
              ELSE <<>>)
             \o RequiresEvents(Tail(requires), concepts_set)

RECURSIVE ForbidsEvents(_, _)
\* the loop over self.rules.get("forbids", [])
ForbidsEvents(forbids, concepts_set) ==
    IF forbids = <<>> THEN <<>>
    ELSE LET pair == Head(forbids)
         IN  (IF Len(pair) = 2 /\ pair[1] \in concepts_set /\ pair[2] \in concepts_set
              THEN <<DissonanceEvent("forbids", <<pair[1], "conflicts with", pair[2]>>)>>
              ELSE <<>>)
             \o ForbidsEvents(Tail(forbids), concepts_set)

\* mutant: the base share of violations is not capped at 1
dissonance_score_uncapped(concepts, events, harmony_hits) ==
    IF concepts = <<>> THEN RInt(0)
    ELSE LET n == IF 1 < Len(concepts) THEN Len(concepts) ELSE 1
             base == Rat(Len(events), n)
             harmony_bonus == RMin(Rat(3, 10), RMul(RInt(harmony_hits), Rat(1, 10)))
         IN  RMax(RInt(0), RSub(base, harmony_bonus))

\* the score of evaluate_dissonance, given its events and harmony hits
dissonance_score_of(concepts, events, harmony_hits) ==
    IF concepts = <<>> THEN RInt(0)
    ELSE LET n == IF 1 < Len(concepts) THEN Len(concepts) ELSE 1
             base == RMin(RInt(1), Rat(Len(events), n))
             harmony_bonus == RMin(Rat(3, 10), RMul(RInt(harmony_hits), Rat(1, 10)))
         IN  RMax(RInt(0), RSub(base, harmony_bonus))

\* mutant: the loop over the forbids rules is left out
evaluate_dissonance_without_forbids(reg, concepts) ==
    LET concepts_set == SeqToSet(concepts)
        events == RequiresEvents(reg.rules.requires, concepts_set)
        harmony_hits == Cardinality({i \in DOMAIN reg.rules.harmony_sets :
                            reg.rules.harmony_sets[i] \subseteq concepts_set})
    IN  <<dissonance_score_of(concepts, events, harmony_hits), events>>

\* returns <<dissonance_score, events>>
evaluate_dissonance(reg, concepts) ==
    LET concepts_set == SeqToSet(concepts)
        events == RequiresEvents(reg.rules.requires, concepts_set)
                  \o ForbidsEvents(reg.rules.forbids, concepts_set)
        harmony_hits == Cardinality({i \in DOMAIN reg.rules.harmony_sets :
                            reg.rules.harmony_sets[i] \subseteq concepts_set})
    IN  <<dissonance_score_of(concepts, events, harmony_hits), events>>

RECURSIVE SumAbsDist(_, _)
SumAbsDist(frequencies, base_freq) ==
    IF frequencies = <<>> THEN RInt(0)
    ELSE LET d == RSub(Head(frequencies), base_freq)
         IN  RAdd(IF d[1] < 0 THEN <<-d[1], d[2]>> ELSE d,
                  SumAbsDist(Tail(frequencies), base_freq))

harmony_key_distance(reg, frequencies) ==
    IF frequencies = <<>> THEN RInt(0)
    ELSE LET base_freq == reg.harmony_key.base_frequency_hz
             tolerance == reg.harmony_key.tolerance_hz
             avg_dist == RDiv(SumAbsDist(frequencies, base_freq),
                              RInt(Len(frequencies)))
         IN  RMin(RInt(1), RDiv(avg_dist, RMax(Rat(1, 1000000), tolerance)))

-----------------------------------------------------------------------------
(* compute_signals (src/src/monitoring/signals.py)                         *)

\* Optional[TDAResult]: present = FALSE stands for None
NoTda == [present |-> FALSE, persistence_entropy |-> RInt(0)]
TDAResult(persistence_entropy) ==
    [present |-> TRUE, persistence_entropy |-> persistence_entropy]

\* mutant: the normalised entropy is not clamped at 1
normalize_entropy_unclamped(entropy) ==
    IF RLe(entropy, RInt(0)) THEN RInt(0) ELSE RDiv(entropy, RInt(3))

\* _normalize_entropy with max_entropy = 3.0
normalize_entropy(entropy) ==
    IF RLe(entropy, RInt(0)) THEN RInt(0)
    ELSE RMin(RInt(1), RDiv(entropy, RInt(3)))

\* mutant: the floor is not applied
compute_health_without_floor(dissonance_score, entropy, floor) ==
    RMin(RInt(1), RSub(RInt(1), RAdd(RMul(Rat(6, 10), entropy),
                                     RMul(Rat(4, 10), dissonance_score))))

\* _compute_health
compute_health(dissonance_score, entropy, floor) ==
    LET raw == RSub(RInt(1), RAdd(RMul(Rat(6, 10), entropy),
                                  RMul(Rat(4, 10), dissonance_score)))
    IN  RMax(floor, RMin(RInt(1), raw))

\* mutant: the controller is handed the rule score from before the blend
compute_signals_plan_before_blend(query, reasoning_trace, tda_res, reg, controller, floor) ==
    LET concepts == SortedNames(SeqToSet(detect_concepts(reg, query)
                        \o detect_concepts_from_trace(reg, reasoning_trace)))
        freqs == chord_frequencies(reg, concepts)
        ev == evaluate_dissonance(reg, concepts)
        entropy_score == IF tda_res.present
                         THEN normalize_entropy(tda_res.persistence_entropy)
                         ELSE RInt(0)
        hkd == harmony_key_distance(reg, freqs)
        dissonance_score == RMin(RInt(1), RAdd(ev[1], RMul(hkd, Rat(1, 2))))
        health_score == compute_health(dissonance_score, entropy_score, floor)
    IN  [concepts |-> concepts,
         chord_product |-> chord_product(reg, concepts),
         chord_frequencies |-> freqs,
         dissonance_score |-> dissonance_score,
         dissonance_events |-> [i \in DOMAIN ev[2] |-> ev[2][i].detail],
         entropy_score |-> entropy_score,
         health_score |-> health_score,
         focus_plan |-> plan(controller, [entropy_score |-> entropy_score,
                                          dissonance_score |-> ev[1],
                                          health_score |-> health_score]),
         harmony_key_distance |-> hkd]

compute_signals(query, reasoning_trace, tda_res, reg, controller, floor) ==
    LET concepts == SortedNames(SeqToSet(detect_concepts(reg, query)
                        \o detect_concepts_from_trace(reg, reasoning_trace)))
        chord == chord_product(reg, concepts)
        freqs == chord_frequencies(reg, concepts)
        ev == evaluate_dissonance(reg, concepts)
        entropy_score == IF tda_res.present
                         THEN normalize_entropy(tda_res.persistence_entropy)
                         ELSE RInt(0)
        hkd == harmony_key_distance(reg, freqs)
        dissonance_score == RMin(RInt(1), RAdd(ev[1], RMul(hkd, Rat(1, 2))))
        health_score == compute_health(dissonance_score, entropy_score, floor)
        fp == plan(controller, [entropy_score |-> entropy_score,
                                dissonance_score |-> dissonance_score,
                                health_score |-> health_score])
    IN  [concepts |-> concepts,
         chord_product |-> chord,
         chord_frequencies |-> freqs,
         dissonance_score |-> dissonance_score,
         dissonance_events |-> [i \in DOMAIN ev[2] |-> ev[2][i].detail],
         entropy_score |-> entropy_score,
         health_score |-> health_score,
         focus_plan |-> fp,
         harmony_key_distance |-> hkd]

-----------------------------------------------------------------------------
(* Inputs enumerated for the registry and compute_signals                  *)

\* longest query (in words) and longest concept list enumerated
MaxQueryWords == 2
MaxConcepts == 4
MaxChordLen == 2
MaxEvaluations == 3

Words == {"Execute", "AUTHORIZED", "lie", "Truth", "plan"}

NoRules == [requires |-> <<>>, forbids |-> <<>>, harmony_sets |-> <<>>]

\* the ontology of the tests: Execute requires Authorization, Deception
\* forbids Truth
RegistryTests ==
    [concepts |-> <<
        Concept("Execute", 2, RInt(262), <<"execute", "run">>, 1),
        Concept("Authorization", 3, RInt(270), <<"authorized">>, 2),
        Concept("Deception", 5, RInt(300), <<"lie">>, 3),
        Concept("Truth", 7, RInt(264), <<"truth">>, 1)>>,
     rules |-> [requires |-> << <<"Execute", <<"Authorization">> >> >>,
                forbids |-> << <<"Deception", "Truth">> >>,
                harmony_sets |-> << {"Truth", "Authorization"} >>],
     harmony_key |-> [base_frequency_hz |-> Rat(26163, 100),
                      tolerance_hz |-> RInt(8)]]

\* many rules per concept, a malformed forbids entry, four harmony sets (one
\* empty), a shared keyword and a zero tolerance
RegistryDense ==
    [concepts |-> <<
        Concept("Execute", 2, RInt(262), <<"Execute", "plan">>, 1),
        Concept("Deception", 5, RInt(250), <<"lie", "plan">>, 3),
        Concept("Truth", 7, RInt(262), <<"truth">>, 1)>>,
     rules |-> [requires |-> << <<"Execute", <<"Authorization", "Truth">> >>,
                               <<"Truth", <<"Unlisted">> >> >>,
                forbids |-> << <<"Execute", "Deception">>,
                               <<"Execute", "Execute">>,
                               <<"Deception", "Truth", "Execute">>,
                               <<"Deception", "Truth">> >>,
                harmony_sets |-> << {}, {"Truth"}, {"Execute"},
                                    {"Execute", "Truth"} >>],
     harmony_key |-> [base_frequency_hz |-> RInt(262),
                      tolerance_hz |-> RInt(0)]]

\* an ontology with no rules and a negative tolerance
RegistryBare ==
    [concepts |-> <<
        Concept("Truth", 7, RInt(266), <<"truth">>, 1),
        Concept("Execute", 2, RInt(258), <<"execute">>, 1)>>,
     rules |-> NoRules,
     harmony_key |-> [base_frequency_hz |-> RInt(262),
                      tolerance_hz |-> RInt(-8)]]

\* three harmony sets that one forbidden pair can sit next to
RegistryHarmonic ==
    [concepts |-> <<
        Concept("Execute", 2, RInt(262), <<"execute">>, 1),
        Concept("Authorization", 3, RInt(270), <<"authorized">>, 2),
        Concept("Deception", 5, RInt(300), <<"lie">>, 3),
        Concept("Truth", 7, RInt(264), <<"truth">>, 1)>>,
     rules |-> [requires |-> << <<"Execute", <<"Authorization">> >> >>,
                forbids |-> << <<"Deception", "Truth">> >>,
                harmony_sets |-> << {"Execute", "Authorization"},
                                    {"Truth", "Authorization"}, {"Truth"} >>],
     harmony_key |-> [base_frequency_hz |-> Rat(26163, 100),
                      tolerance_hz |-> RInt(8)]]

RegistryChoices == {RegistryTests, RegistryDense, RegistryBare}

DissonanceRegistries == RegistryChoices \cup {RegistryHarmonic}

\* an ontology whose primes are neither distinct nor all above 1
RegistryUnit ==
    [concepts |-> <<
        Concept("Execute", 1, RInt(262), <<"execute">>, 1),
        Concept("Truth", 7, RInt(264), <<"truth">>, 1),
        Concept("Deception", 7, RInt(300), <<"lie">>, 3)>>,
     rules |-> NoRules,
     harmony_key |-> [base_frequency_hz |-> RInt(262),
                      tolerance_hz |-> RInt(8)]]

ChordRegistries == DissonanceRegistries \cup {RegistryUnit}

\* sequences over S of length at most n
SeqsUpTo(S, n) == UNION {[1..k -> S] : k \in 0..n}

QueryChoices == SeqsUpTo(Words, MaxQueryWords)

\* {}, a trace of one string value, a trace with a nested dict
TraceChoices == {<<>>, << <<<<"lie">>>> >>,
                 << <<<<"plan">>, <<"Truth">>>>, <<<<>>>> >>}

TdaChoices == {NoTda, TDAResult(RInt(-1)), TDAResult(RInt(0)),
               TDAResult(Rat(3, 2)), TDAResult(RInt(3)), TDAResult(RInt(4))}

\* the default floor 0.2 and floors at and outside the ends of [0, 1]
FloorChoices == {Rat(1, 5), RInt(0), RInt(1), Rat(3, 2), RInt(-1)}

\* the controller of test_fplanbounds, enabled and disabled
SignalControllers ==
    {FocusController(en, 2, 6, 3, Rat(6, 10), Rat(4, 10)) : en \in BOOLEAN}

\* known names, and one name no ontology of the model lists
ChordNames == {"Execute", "Truth", "Unlisted"}

ChordLists == SeqsUpTo(ChordNames, MaxChordLen)

\* no chord_product call made yet for any of the three arguments
NoChordOut == [a |-> <<>>, b |-> <<>>, ab |-> <<>>]

\* the list handed to chord_product: A, B, or A followed by B
ChordArg(lists, which) ==
    CASE which = "a" -> lists[1]
      [] which = "b" -> lists[2]
      [] OTHER -> lists[1] \o lists[2]

NoBundle ==
    [concepts |-> <<>>, chord_product |-> 1, chord_frequencies |-> <<>>,
     dissonance_score |-> RInt(0), dissonance_events |-> <<>>,
     entropy_score |-> RInt(0), health_score |-> RInt(0),
     focus_plan |-> PlanRaises("not_called"),
     harmony_key_distance |-> RInt(0)]

NoCall == [query |-> <<>>, reasoning_trace |-> <<>>, tda_result |-> NoTda,
           concepts |-> <<>>]

-----------------------------------------------------------------------------
(* ActivationCapture (src/src/tda/activation_capture.py)                   *)

Callers == 1..NumCallers

\* the value of an unset local or of a call that has not ended
Pending == [kind |-> "pending", error |-> "none"]
ReturnsNone == [kind |-> "none", error |-> "none"]
ReturnsTrace == [kind |-> "trace", error |-> "none"]
LoadReturns == [kind |-> "loaded", error |-> "none"]
Raises(error) == [kind |-> "raised", error |-> error]

\* mutant: the empty-prompt check is missing
prompt_is_empty_never(prompt) == FALSE

\* `if not prompt`
prompt_is_empty(prompt) == prompt = <<>>

\* self.config.capture_layers or [-1, -2, -3, -4]
capture_layers_or_default(cfg) ==
    IF cfg.capture_layers = <<>> THEN <<-1, -2, -3, -4>> ELSE cfg.capture_layers

RECURSIVE select_indices(_, _)
\* the loop building selected_indices from capture_layers and len(layers)
select_indices(capture_layers, n_layers) ==
    IF capture_layers = <<>> THEN <<>>
    ELSE LET raw == Head(capture_layers)
             idx == IF raw < 0 THEN n_layers + raw ELSE raw
         IN  (IF 0 <= idx /\ idx < n_layers THEN <<idx>> ELSE <<>>)
             \o select_indices(Tail(capture_layers), n_layers)

selected_indices(cfg) ==
    select_indices(capture_layers_or_default(cfg), cfg.n_layers)

\* the handle register_forward_hook returns for the k-th selected layer of
\* call number n of caller t; its closure writes captured[layer] of that call
HookHandle(t, n, k, layer) == [owner |-> t, call |-> n, k |-> k, layer |-> layer]

\* hooks = [layers[idx].register_forward_hook(_make_hook(idx)) for idx in selected]
new_hooks(cfg, t, n) ==
    LET sel == selected_indices(cfg)
    IN  {HookHandle(t, n, k, sel[k]) : k \in DOMAIN sel}

\* one forward pass of the generation of caller g (call number n): every hook
\* registered on the model runs and stores the output it sees in the captured
\* dict of the call that registered it
captured_after_forward(capt, hooks, calls, g) ==
    [o \in Callers |->
        LET mine == {h \in hooks : h.owner = o /\ h.call = calls[o]}
            hit == {h.layer : h \in mine}
        IN  [l \in (DOMAIN capt[o]) \cup hit |->
                IF l \in hit THEN [gen |-> <<g, calls[g]>>] ELSE capt[o][l]]]

NoActivations == [l \in {} |-> [gen |-> <<0, 0>>]]

RECURSIVE SumOver(_, _)
SumOver(f, S) ==
    IF S = {} THEN 0
    ELSE LET x == CHOOSE y \in S : TRUE IN f[x] + SumOver(f, S \ {x})

\* capture(prompt) is entered: self.load() comes first
CapCall(t, prompt) ==
    /\ pcC[t] \in {"idle", "done"}
    /\ SumOver(ncalls, Callers) < MaxCalls
    /\ ncalls' = [ncalls EXCEPT ![t] = @ + 1]
    /\ cprompt' = [cprompt EXCEPT ![t] = prompt]
    /\ chooks' = [chooks EXCEPT ![t] = {}]
    /\ captured' = [captured EXCEPT ![t] = NoActivations]
    /\ cresult' = [cresult EXCEPT ![t] = Pending]
    /\ pcC' = [pcC EXCEPT ![t] = "load"]
    /\ UNCHANGED <<cap_config, cap_model, load_count, model_hooks>>

\* a direct call of the public load() method
CapLoadCall(t) ==
    /\ pcC[t] \in {"idle", "done"}
    /\ SumOver(ncalls, Callers) < MaxCalls
    /\ ncalls' = [ncalls EXCEPT ![t] = @ + 1]
    /\ cresult' = [cresult EXCEPT ![t] = Pending]
    /\ pcC' = [pcC EXCEPT ![t] = "load_only"]
    /\ UNCHANGED <<cap_config, cap_model, load_count, model_hooks, cprompt,
                   chooks, captured>>

\* mutant: load() without its early return
model_is_loaded_never(model) == FALSE

\* load(): `self.model is not None`
model_is_loaded(model) == model # "none"

\* load(): `if self.model is not None: return`; pcC "load" is load() called
\* by capture(), "load_only" a direct call of load()
CapLoadCheck(t) ==
    /\ pcC[t] \in {"load", "load_only"}
    /\ pcC' = [pcC EXCEPT ![t] =
                  IF model_is_loaded(cap_model)
                  THEN (IF pcC[t] = "load" THEN "loaded" ELSE "done")
                  ELSE (IF pcC[t] = "load" THEN "loading" ELSE "loading_only")]
    /\ cresult' = [cresult EXCEPT ![t] =
                      IF model_is_loaded(cap_model) /\ pcC[t] = "load_only"
                      THEN LoadReturns ELSE @]
    /\ UNCHANGED <<cap_config, cap_model, load_count, model_hooks, ncalls,
                   cprompt, chooks, captured>>

\* load(): tokenizer and model are fetched and assigned, or from_pretrained
\* raises (also in the fallback) and the exception leaves the call
CapLoadFinish(t) ==
    /\ pcC[t] \in {"loading", "loading_only"}
    /\ \/ /\ cap_model' = "loaded"
          /\ load_count' = load_count + 1
          /\ pcC' = [pcC EXCEPT ![t] = IF pcC[t] = "loading" THEN "loaded" ELSE "done"]
          /\ cresult' = [cresult EXCEPT ![t] =
                            IF pcC[t] = "loading" THEN @ ELSE LoadReturns]
       \/ /\ cresult' = [cresult EXCEPT ![t] = Raises("load")]
          /\ pcC' = [pcC EXCEPT ![t] = "done"]
          /\ UNCHANGED <<cap_model, load_count>>
    /\ UNCHANGED <<cap_config, model_hooks, ncalls, cprompt, chooks, captured>>

\* after load(): the empty-prompt return, tokenisation, _resolve_layers (which
\* raises RuntimeError when no layer path matches) and the hook registration
CapRegister(t) ==
    /\ pcC[t] = "loaded"
    /\ IF prompt_is_empty(cprompt[t])
       THEN /\ cresult' = [cresult EXCEPT ![t] = ReturnsNone]
            /\ pcC' = [pcC EXCEPT ![t] = "done"]
            /\ UNCHANGED <<model_hooks, chooks>>
       ELSE IF ~cap_config.layers_resolvable
       THEN /\ cresult' = [cresult EXCEPT ![t] = Raises("resolve_layers")]
            /\ pcC' = [pcC EXCEPT ![t] = "done"]
            /\ UNCHANGED <<model_hooks, chooks>>
       ELSE /\ chooks' = [chooks EXCEPT ![t] = new_hooks(cap_config, t, ncalls[t])]
            /\ model_hooks' = model_hooks \cup new_hooks(cap_config, t, ncalls[t])
            /\ pcC' = [pcC EXCEPT ![t] = "generate"]
            /\ UNCHANGED cresult
    /\ UNCHANGED <<cap_config, cap_model, load_count, ncalls, cprompt, captured>>

\* self.model.generate(...): one forward pass through the layer stack
CapForward(t) ==
    /\ pcC[t] \in {"generate", "generating"}
    /\ captured' = captured_after_forward(captured, model_hooks, ncalls, t)
    /\ pcC' = [pcC EXCEPT ![t] = "generating"]
    /\ UNCHANGED <<cap_config, cap_model, load_count, model_hooks, ncalls,
                   cprompt, chooks, cresult>>

\* generate() returns (after at least one forward pass), or raises: the
\* exception leaves capture() before the hooks are removed
CapGenerateEnd(t) ==
    /\ \/ /\ pcC[t] = "generating"
          /\ pcC' = [pcC EXCEPT ![t] = "remove"]
          /\ UNCHANGED cresult
       \/ /\ pcC[t] \in {"generate", "generating"}
          /\ cresult' = [cresult EXCEPT ![t] = Raises("generate")]
          /\ pcC' = [pcC EXCEPT ![t] = "done"]
    /\ UNCHANGED <<cap_config, cap_model, load_count, model_hooks, ncalls,
                   cprompt, chooks, captured>>

\* `for h in hooks: h.remove()` and `return ActivationTrace(captured, ...)`
CapRemoveAndReturn(t) ==
    /\ pcC[t] = "remove"
    /\ model_hooks' = model_hooks \ chooks[t]
    /\ cresult' = [cresult EXCEPT ![t] = ReturnsTrace]
    /\ pcC' = [pcC EXCEPT ![t] = "done"]
    /\ UNCHANGED <<cap_config, cap_model, load_count, ncalls, cprompt, chooks,
                   captured>>

\* configurations: capture_layers lists (<<>> stands for None) against a stack
\* of n_layers layers; layers_resolvable = FALSE is an architecture none of
\* the candidate paths of _resolve_layers matches
ActivationCaptureConfig(capture_layers, n_layers, layers_resolvable) ==
    [capture_layers |-> capture_layers, n_layers |-> n_layers,
     layers_resolvable |-> layers_resolvable]

CaptureConfigs ==
    {ActivationCaptureConfig(<<>>, 2, TRUE),
     ActivationCaptureConfig(<<-1>>, 2, TRUE),
     ActivationCaptureConfig(<<0, -2>>, 2, TRUE),
     ActivationCaptureConfig(<<5, -7>>, 2, TRUE),
     ActivationCaptureConfig(<<2>>, 2, TRUE),
     ActivationCaptureConfig(<<-1>>, 2, FALSE)}

\* longest output of a forward pass (in positions) and most forward passes
\* of one generation call
MaxSeqLen == 3
MaxPasses == 2

\* the index a slice start of -tokens_to_keep stands for in a sequence of n
\* positions: -0 is 0, a negative start counts from the end and stops at 0
slice_start(n, tokens_to_keep) ==
    LET start == 0 - tokens_to_keep
    IN  IF start < 0 THEN (IF start + n < 0 THEN 0 ELSE start + n)
        ELSE (IF start < n THEN start ELSE n)

\* hook_fn: out_tensor[:, -tokens_to_keep::stride, :] of an output of n
\* positions, as the sequence of the positions kept (counted from 0)
hook_fn(cfg, n) ==
    LET tokens_to_keep == cfg.capture_tokens
        stride == IF 1 < cfg.token_stride THEN cfg.token_stride ELSE 1
        start == slice_start(n, tokens_to_keep)
    IN  SelectSeq([p \in 1..n |-> p - 1],
                  LAMBDA p : start <= p /\ (p - start) % stride = 0)

\* capture_tokens 0, small values and the default 32; strides below, at and
\* above 1; the layer configurations of a model whose layers resolve
HookConfigs ==
    [capture_tokens : {0, 1, 2, 32}, token_stride : {0, 1, 2},
     layers : {cfg \in CaptureConfigs : cfg.layers_resolvable}]

NoCaptured == [l \in {} |-> <<>>]

PromptChoices == {<<>>, <<"Execute", "plan">>}

-----------------------------------------------------------------------------
(* MetaAnalyticalPFC.process and the activation probe                      *)
(* (src/src/core/pfc_engine.py)                                            *)

\* the tda map of _emit_telemetry: {} when tda_result is None
tda_map(tr) ==
    IF tr.present THEN {<<"persistence_entropy", tr.persistence_entropy>>} ELSE {}

\* _emit_telemetry / build_event: the event built from a SignalBundle
TelemetryEvent(query_id, stage, mode, signals, tr, notes) ==
    [query_id |-> query_id, stage |-> stage, mode |-> mode,
     metrics |-> [entropy_score |-> signals.entropy_score,
                  dissonance_score |-> signals.dissonance_score,
                  health_score |-> signals.health_score,
                  harmony_key_distance |-> signals.harmony_key_distance],
     tda |-> tda_map(tr),
     chord |-> [product |-> signals.chord_product,
                concepts |-> signals.concepts],
     focus |-> [depth |-> signals.focus_plan.depth],
     notes |-> notes]

\* run_activation as process() computes it from mode and configuration
run_activation(cfg, mode) ==
    /\ cfg.enabled
    /\ ~(mode = "simple" /\ cfg.skip_for_simple)
    /\ ~(mode = "moderate" /\ cfg.skip_for_moderate)

\* mutant: _run_activation_probe without its try/except
probe_outcome_without_except(raised, value) ==
    [tda_result |-> IF raised # "none" THEN NoTda ELSE value,
     escapes |-> raised # "none"]

\* _run_activation_probe: `except Exception` turns whatever was raised by
\* capture() or compute_tda() into the result None; nothing escapes
probe_outcome(raised, value) ==
    [tda_result |-> IF raised # "none" THEN NoTda ELSE value,
     escapes |-> FALSE]

\* what the try block of the probe can raise or return once capture() ended:
\* <<raised, value>> pairs; compute_tda returns None on an empty cloud, a
\* TDAResult, or raises (PCA or ripser on a degenerate cloud)
ProbeBodyOutcomes(result, activations) ==
    IF result.kind = "raised" THEN {<<result.error, NoTda>>}
    ELSE IF result.kind = "none" \/ DOMAIN activations = {} THEN {<<"none", NoTda>>}
    ELSE {<<"compute_tda", NoTda>>, <<"none", NoTda>>}
         \cup {<<"none", TDAResult(e)>> : e \in {RInt(0), Rat(3, 2), RInt(4)}}

Signals(query, trace, tr) ==
    compute_signals(query, trace, tr, registry, fc, health_floor)

\* process() is entered: triage has returned `mode`
ProcessCall ==
    \E query \in {<<>>, <<"Execute", "plan">>, <<"lie", "Truth">>},
       mode \in {"simple", "moderate", "executive"} :
        /\ pcP = "idle"
        /\ pquery' = query
        /\ pmode' = mode
        /\ pcP' = IF run_activation(proc_cfg, mode) THEN "preflight_fast" ELSE "memory"
        /\ UNCHANGED <<proc_cfg, exec_in, exec_locals, gen_calls, tda_result, probe_error, preflight_signals, emitted,
                       focusVars, signalVars, captureVars, telemetryVars, tdaVars, chordVars, caeVars, hookVars, queryVars>>

\* the preflight_fast event, emitted only when the probe is going to run
EmitPreflightFast ==
    /\ pcP = "preflight_fast"
    /\ emitted' = Append(emitted,
           TelemetryEvent("q", "preflight_fast", pmode,
                          Signals(pquery, <<>>, NoTda), NoTda, "preflight_fast"))
    /\ pcP' = "probe"
    /\ UNCHANGED <<proc_cfg, exec_in, exec_locals, gen_calls, pquery, pmode, tda_result, probe_error,
                   preflight_signals, focusVars, signalVars, captureVars, telemetryVars, tdaVars, chordVars, caeVars, hookVars, queryVars>>

\* _run_activation_probe: returns None without a capture object, else calls
\* self.activation_capture.capture(query) inside the try block
ProbeStart ==
    /\ pcP = "probe"
    /\ IF ~proc_cfg.has_capture
       THEN /\ pcP' = "memory"
            /\ UNCHANGED captureVars
       ELSE /\ CapCall(1, pquery)
            /\ pcP' = "capturing"
    /\ UNCHANGED <<proc_cfg, exec_in, exec_locals, gen_calls, pquery, pmode, tda_result, probe_error,
                   preflight_signals, emitted, focusVars, signalVars, telemetryVars, tdaVars, chordVars, caeVars, hookVars, queryVars>>

\* capture() has ended: the rest of the try block and the except clause
ProbeFinish ==
    /\ pcP = "capturing"
    /\ pcC[1] = "done"
    /\ \E body \in ProbeBodyOutcomes(cresult[1], captured[1]) :
          LET out == probe_outcome(body[1], body[2])
          IN  /\ probe_error' = body[1]
              /\ tda_result' = out.tda_result
              /\ pcP' = IF out.escapes THEN "aborted" ELSE "memory"
    /\ UNCHANGED <<proc_cfg, exec_in, exec_locals, gen_calls, pquery, pmode, preflight_signals, emitted,
                   focusVars, signalVars, captureVars, telemetryVars, tdaVars, chordVars, caeVars, hookVars, queryVars>>

\* memory retrieval, then the preflight signals and the preflight event
EmitPreflight ==
    /\ pcP = "memory"
    /\ preflight_signals' = Signals(pquery, <<>>, tda_result)
    /\ emitted' = Append(emitted,
           TelemetryEvent("q", "preflight", pmode,
                          Signals(pquery, <<>>, tda_result), tda_result,
                          "preflight_probe"))
    /\ pcP' = IF pmode \in {"simple", "moderate"} THEN "standard" ELSE "executive"
    /\ UNCHANGED <<proc_cfg, exec_in, exec_locals, gen_calls, pquery, pmode, tda_result, probe_error,
                   focusVars, signalVars, captureVars, telemetryVars, tdaVars, chordVars, caeVars, hookVars, queryVars>>

\* a generation call and the sampling arguments it was given: a temperature
\* or max_tokens that the caller does not pass is absent
NotPassed == [passed |-> FALSE]
Passed(value) == [passed |-> TRUE, value |-> value]
GenCall(stage, temperature, max_tokens) ==
    [stage |-> stage, temperature |-> temperature, max_tokens |-> max_tokens]

\* _standard_response (self.models.generate without temperature or
\* max_tokens) and the final event of a simple or moderate query
StandardFinal ==
    /\ pcP = "standard"
    /\ gen_calls' = Append(gen_calls, GenCall("standard", NotPassed, NotPassed))
    /\ emitted' = Append(emitted,
           TelemetryEvent("q", "final", pmode, preflight_signals, tda_result,
                          "simple_or_moderate"))
    /\ pcP' = "done"
    /\ UNCHANGED <<proc_cfg, exec_in, exec_locals, pquery, pmode, tda_result,
                   probe_error, preflight_signals, focusVars, signalVars,
                   captureVars, telemetryVars, tdaVars, chordVars, caeVars, hookVars, queryVars>>

\* temp = max(0.05, base_temp * focus_plan.temperature_scale * safety_scale)
executive_temperature(base_temp, fplan, safety_scale) ==
    RMax(Rat(5, 100), RMul(RMul(base_temp, fplan.temperature_scale), safety_scale))

\* max_tokens = int(base_tokens * focus_plan.max_tokens_scale)
executive_max_tokens(base_tokens, fplan) ==
    RTrunc(RMul(RInt(base_tokens), fplan.max_tokens_scale))

\* what _executive_reasoning reads: executive.temperature and
\* executive.max_tokens of the model configuration (defaults 0.3 and 2048) and
\* temperature_scale of the CAE context (default 1.0)
ExecChoices ==
    {[temperature |-> Rat(3, 10), max_tokens |-> 2048, safety_scale |-> RInt(1)],
     [temperature |-> Rat(3, 10), max_tokens |-> 2048, safety_scale |-> Rat(1, 4)],
     [temperature |-> RInt(1), max_tokens |-> 101, safety_scale |-> RInt(1)]}

\* _executive_reasoning up to the refinement loop: focus_plan, temp and
\* max_tokens are computed, the analysis event is emitted, the analysis
\* stages run and the synthesis call generates the initial response
EmitAnalysis ==
    \E cfg \in ExecChoices :
        LET fplan == preflight_signals.focus_plan
        IN  /\ pcP = "executive"
            /\ exec_in' = cfg
            /\ exec_locals' =
                  [temp |-> executive_temperature(cfg.temperature, fplan,
                                                  cfg.safety_scale),
                   max_tokens |-> executive_max_tokens(cfg.max_tokens, fplan),
                   i |-> 1]
            /\ emitted' = Append(emitted,
                   TelemetryEvent("q", "analysis", pmode, preflight_signals,
                                  tda_result, "focus_plan"))
            /\ gen_calls' = Append(gen_calls,
                   GenCall("synthesis", Passed(exec_locals'.temp),
                           Passed(exec_locals'.max_tokens)))
            /\ pcP' = "reasoning"
            /\ UNCHANGED <<proc_cfg, pquery, pmode, tda_result, probe_error,
                           preflight_signals, focusVars, signalVars, captureVars,
                           telemetryVars, tdaVars, chordVars, caeVars, hookVars, queryVars>>

\* mutant: a loop running over range(1, depth + 2)
refinement_continues_past_depth(i, depth) == i < depth + 2

\* `for i in range(1, focus_plan.depth)`: the loop takes another pass
refinement_continues(i, depth) == i < depth

\* one focus refinement pass: _integrate_critique and the adversarial review
RefinePass ==
    /\ pcP = "reasoning"
    /\ refinement_continues(exec_locals.i, preflight_signals.focus_plan.depth)
    /\ gen_calls' = Append(gen_calls,
           GenCall("refine", Passed(exec_locals.temp), Passed(exec_locals.max_tokens)))
    /\ exec_locals' = [exec_locals EXCEPT !.i = @ + 1]
    /\ UNCHANGED <<proc_cfg, exec_in, pcP, pquery, pmode, tda_result, probe_error,
                   preflight_signals, emitted, focusVars, signalVars, captureVars,
                   telemetryVars, tdaVars, chordVars, caeVars, hookVars, queryVars>>

\* the loop variable has run through range(1, depth): the loop is left
RefineLoopExit ==
    /\ pcP = "reasoning"
    /\ ~refinement_continues(exec_locals.i, preflight_signals.focus_plan.depth)
    /\ pcP' = "calibrate"
    /\ UNCHANGED <<proc_cfg, exec_in, exec_locals, gen_calls, pquery, pmode,
                   tda_result, probe_error, preflight_signals, emitted,
                   focusVars, signalVars, captureVars, telemetryVars, tdaVars, chordVars, caeVars, hookVars, queryVars>>

\* _executive_reasoning after the loop: calibration, the final
\* _integrate_critique call, then the final signals are computed and the
\* self_check and final events emitted
ExecutiveFinal ==
    /\ pcP = "calibrate"
    /\ \E trace \in TraceChoices :
          LET final_signals == Signals(pquery, trace, tda_result)
          IN  /\ gen_calls' = Append(gen_calls,
                     GenCall("final", Passed(exec_locals.temp),
                             Passed(exec_locals.max_tokens)))
              /\ emitted' = emitted \o
                     <<TelemetryEvent("q", "self_check", pmode, final_signals,
                                      tda_result, "self_check"),
                       TelemetryEvent("q", "final", pmode, final_signals,
                                      tda_result, "executive_final")>>
    /\ pcP' = "done"
    /\ UNCHANGED <<proc_cfg, exec_in, exec_locals, pquery, pmode,
                   tda_result, probe_error, preflight_signals, focusVars,
                   signalVars, captureVars, telemetryVars, tdaVars, chordVars, caeVars, hookVars, queryVars>>

\* the queries of one pipeline whose process() calls overlap; a query stands
\* for the uuid4 string process() draws as its query_id
NumQueries == 2

\* most events the log holds before the model stops emitting
MaxLogLen == 7

Queries == 1..NumQueries

\* the part of a TelemetryEvent that identifies it in the log
StageEvent(query_id, stage) == [query_id |-> query_id, stage |-> stage]

\* mutant: every query is routed to executive reasoning
route_always_executive(mode) == "executive"

\* `if mode in [ReasoningMode.SIMPLE, ReasoningMode.MODERATE]`: the pathway
\* process() takes after the preflight event
route(mode) == IF mode \in {"simple", "moderate"} THEN "standard" ELSE "executive"

\* process() is entered for query q: triage has returned `mode`
QueryCall(q, mode) ==
    /\ qpc[q] = "idle"
    /\ qmode' = [qmode EXCEPT ![q] = mode]
    /\ qpc' = [qpc EXCEPT ![q] =
                  IF run_activation(proc_cfg, mode) THEN "preflight_fast"
                  ELSE "memory"]
    /\ UNCHANGED <<qprobed, event_log>>

\* one _emit_telemetry call of query q, after which process() stands at `next`
QueryEmit(q, at, stage, next) ==
    /\ qpc[q] = at
    /\ Len(event_log) < MaxLogLen
    /\ event_log' = Append(event_log, StageEvent(q, stage))
    /\ qpc' = [qpc EXCEPT ![q] = next]
    /\ UNCHANGED <<qmode, qprobed>>

\* _run_activation_probe(query): its result or None, never an exception
QueryProbe(q) ==
    /\ qpc[q] = "probe"
    /\ qprobed' = [qprobed EXCEPT ![q] = TRUE]
    /\ qpc' = [qpc EXCEPT ![q] = "memory"]
    /\ UNCHANGED <<qmode, event_log>>

\* an exception of memory retrieval, of a generation call, of compute_signals
\* or of emit leaves process(): the query is not completed
QueryRaises(q) ==
    /\ qpc[q] \notin {"idle", "done", "raised"}
    /\ qpc' = [qpc EXCEPT ![q] = "raised"]
    /\ UNCHANGED <<qmode, qprobed, event_log>>

\* the controllers a pipeline is configured with: the one of
\* test_fplanbounds, and shallow ones (depths 0 and 1)
ProcessControllers ==
    SignalControllers
    \cup {FocusController(TRUE, 0, 1, 0, Rat(6, 10), Rat(4, 10)),
          FocusController(FALSE, 0, 1, 1, Rat(6, 10), Rat(4, 10))}

NoExecIn == [temperature |-> RInt(0), max_tokens |-> 0, safety_scale |-> RInt(0)]
NoExecLocals == [temp |-> RInt(0), max_tokens |-> 0, i |-> 0]

ProcessConfigs ==
    [enabled : BOOLEAN, skip_for_simple : BOOLEAN, skip_for_moderate : BOOLEAN,
     has_capture : BOOLEAN]

-----------------------------------------------------------------------------
(* TelemetryEvent.to_json and TelemetryLogger.emit                         *)
(* (src/src/monitoring/telemetry.py)                                       *)
(*                                                                         *)
(* The log file is a sequence of tokens.  A character of a string value    *)
(* or of a number is one token; the fixed text json.dumps puts between the *)
(* values of a record is one token per stretch.  The modelled record has   *)
(* the fields query_id (str), metrics.health_score (float) and notes       *)
(* (Optional[str]), in dataclass order; the other fields of the dataclass  *)
(* are strings and maps encoded by the same rules.                         *)

QUOTE == "\""
BACKSLASH == "\\"
NL == "\n"
\* a character outside ASCII (U+00E9)
EACUTE == "e-acute"

\* Optional[str]: None, or the string
None == <<>>
Some(text) == <<text>>

\* build_event / the TelemetryEvent constructor
build_event(query_id, health_score, notes) ==
    [query_id |-> query_id,
     metrics |-> [health_score |-> health_score],
     notes |-> notes]

DigitChars == <<"0", "1", "2", "3", "4", "5", "6", "7", "8", "9">>

RECURSIVE int_digits(_)
int_digits(n) ==
    IF n < 10 THEN <<DigitChars[n + 1]>>
    ELSE int_digits(n \div 10) \o <<DigitChars[(n % 10) + 1]>>

\* the digits after the point of num/den (num < den), a finite decimal
RECURSIVE frac_digits(_, _)
frac_digits(num, den) ==
    IF num = 0 THEN <<>>
    ELSE <<DigitChars[((num * 10) \div den) + 1]>>
         \o frac_digits((num * 10) % den, den)

\* float.__repr__ as json.dumps applies it: sign, integer digits, point,
\* fraction digits ("1.0" for a whole number)
float_repr(r) ==
    LET a == Abs(r[1])
    IN  (IF r[1] < 0 THEN <<"-">> ELSE <<>>)
        \o int_digits(a \div r[2]) \o <<".">>
        \o (IF a % r[2] = 0 THEN <<"0">> ELSE frac_digits(a % r[2], r[2]))

\* json.dumps(ensure_ascii=True) on one character of a string
escape_char(c) ==
    IF c = QUOTE THEN <<BACKSLASH, QUOTE>>
    ELSE IF c = BACKSLASH THEN <<BACKSLASH, BACKSLASH>>
    ELSE IF c = NL THEN <<BACKSLASH, "n">>
    ELSE IF c = EACUTE THEN <<BACKSLASH, "u", "0", "0", "e", "9">>
    ELSE <<c>>

RECURSIVE escape_chars(_)
escape_chars(text) ==
    IF text = <<>> THEN <<>>
    ELSE escape_char(Head(text)) \o escape_chars(Tail(text))

json_string(text) == <<QUOTE>> \o escape_chars(text) \o <<QUOTE>>

json_optional_string(opt) ==
    IF opt = None THEN <<"null">> ELSE json_string(opt[1])

\* the fixed text of a record
T_OPEN == "{\"query_id\": "
T_METRICS == ", \"metrics\": {\"health_score\": "
T_NOTES == "}, \"notes\": "
T_CLOSE == "}"

\* TelemetryEvent.to_json: json.dumps(asdict(self), ensure_ascii=True)
to_json(event) ==
    <<T_OPEN>> \o json_string(event.query_id)
    \o <<T_METRICS>> \o float_repr(event.metrics.health_score)
    \o <<T_NOTES>> \o json_optional_string(event.notes)
    \o <<T_CLOSE>>

\* mutant: emit writing the record without the line terminator
line_without_newline(event) == to_json(event)

\* the string emit hands to f.write: event.to_json() + "\n"
line_of(event) == to_json(event) \o <<NL>>

\* json.loads, as the replay side and the round-trip test apply it to a line
ParseError == [ok |-> FALSE]

At(s, i) == IF i \in 1..Len(s) THEN s[i] ELSE "EOF"

IsDigit(c) == \E d \in 1..10 : DigitChars[d] = c

DigitVal(c) == (CHOOSE d \in 1..10 : DigitChars[d] = c) - 1

RECURSIVE Pow10(_)
Pow10(k) == IF k = 0 THEN 1 ELSE 10 * Pow10(k - 1)

\* <<value, index after the digits, number of digits>>
RECURSIVE scan_digits(_, _, _, _)
scan_digits(s, i, acc, count) ==
    IF IsDigit(At(s, i))
    THEN scan_digits(s, i + 1, acc * 10 + DigitVal(s[i]), count + 1)
    ELSE <<acc, i, count>>

parse_number(s, i) ==
    LET neg == At(s, i) = "-"
        ip == scan_digits(s, IF neg THEN i + 1 ELSE i, 0, 0)
        frac == At(s, ip[2]) = "."
        fp == IF frac THEN scan_digits(s, ip[2] + 1, 0, 0) ELSE <<0, ip[2], 0>>
        magnitude == ip[1] * Pow10(fp[3]) + fp[1]
    IN  IF ip[3] = 0 \/ (frac /\ fp[3] = 0) THEN ParseError
        ELSE [ok |-> TRUE,
              value |-> Rat(IF neg THEN -magnitude ELSE magnitude, Pow10(fp[3])),
              next |-> fp[2]]

\* the characters of a string from index i (after the opening quote) on
RECURSIVE scan_string(_, _, _)
scan_string(s, i, acc) ==
    IF i > Len(s) \/ s[i] = NL THEN ParseError
    ELSE IF s[i] = QUOTE THEN [ok |-> TRUE, value |-> acc, next |-> i + 1]
    ELSE IF s[i] # BACKSLASH THEN scan_string(s, i + 1, Append(acc, s[i]))
    ELSE IF At(s, i + 1) \in {QUOTE, BACKSLASH}
         THEN scan_string(s, i + 2, Append(acc, s[i + 1]))
    ELSE IF At(s, i + 1) = "n" THEN scan_string(s, i + 2, Append(acc, NL))
    ELSE IF At(s, i + 1) = "u" /\ i + 5 <= Len(s)
            /\ SubSeq(s, i + 2, i + 5) = <<"0", "0", "e", "9">>
         THEN scan_string(s, i + 6, Append(acc, EACUTE))
    ELSE ParseError

parse_string(s, i) ==
    IF At(s, i) = QUOTE THEN scan_string(s, i + 1, <<>>) ELSE ParseError

parse_optional_string(s, i) ==
    IF At(s, i) = "null" THEN [ok |-> TRUE, value |-> None, next |-> i + 1]
    ELSE LET p == parse_string(s, i)
         IN  IF p.ok THEN [p EXCEPT !.value = Some(p.value)] ELSE ParseError

\* the scalar fields of the record a line holds, or ParseError
from_json(line) ==
    IF At(line, 1) # T_OPEN THEN ParseError
    ELSE LET q == parse_string(line, 2)
         IN  IF ~q.ok \/ At(line, q.next) # T_METRICS THEN ParseError
             ELSE LET h == parse_number(line, q.next + 1)
                  IN  IF ~h.ok \/ At(line, h.next) # T_NOTES THEN ParseError
                      ELSE LET n == parse_optional_string(line, h.next + 1)
                           IN  IF ~n.ok \/ At(line, n.next) # T_CLOSE
                                        \/ n.next # Len(line)
                               THEN ParseError
                               ELSE [ok |-> TRUE, query_id |-> q.value,
                                     health_score |-> h.value,
                                     notes |-> n.value]

\* the newline-terminated lines of a file content, terminators removed
RECURSIVE split_lines(_, _, _)
split_lines(content, cur, acc) ==
    IF content = <<>> THEN acc
    ELSE IF Head(content) = NL THEN split_lines(Tail(content), <<>>, Append(acc, cur))
    ELSE split_lines(Tail(content), Append(cur, Head(content)), acc)

complete_lines(content) == split_lines(content, <<>>, <<>>)

IsPrefix(s, t) == Len(s) <= Len(t) /\ SubSeq(t, 1, Len(s)) = s

Writers == 1..NumWriters

\* how many tokens one write(2) of n buffered tokens can transfer: all of
\* them, or a short count, after which the file object writes the rest with
\* a further write(2)
write_counts(n) == {n} \cup (IF WriteBlock < n THEN {WriteBlock} ELSE {})

\* emit(): open(path, "a") gives this call a file object of its own, and
\* f.write puts the line into its buffer
TelEmitCall(w, event) ==
    /\ pcT[w] = "idle"
    /\ Len(emit_log) < MaxEmits
    /\ emit_log' = Append(emit_log, event)
    /\ wbuf' = [wbuf EXCEPT ![w] = line_of(event)]
    /\ pcT' = [pcT EXCEPT ![w] = IF logger.flush_immediately
                                  THEN "flushing" ELSE "closing"]
    /\ UNCHANGED <<logger, file, file0>>

\* one write(2) on the O_APPEND descriptor, issued by f.flush() or by the
\* close at the end of the with block: the transferred tokens land at the
\* end of the file as it is at that moment
TelRawWrite(w) ==
    /\ pcT[w] \in {"flushing", "closing"}
    /\ wbuf[w] # <<>>
    /\ \E k \in write_counts(Len(wbuf[w])) :
          /\ file' = file \o SubSeq(wbuf[w], 1, k)
          /\ wbuf' = [wbuf EXCEPT ![w] = SubSeq(wbuf[w], k + 1, Len(wbuf[w]))]
    /\ UNCHANGED <<logger, file0, emit_log, pcT>>

\* f.flush() returns once the buffer is empty
TelFlushReturn(w) ==
    /\ pcT[w] = "flushing"
    /\ wbuf[w] = <<>>
    /\ pcT' = [pcT EXCEPT ![w] = "closing"]
    /\ UNCHANGED <<logger, file, file0, emit_log, wbuf>>

\* the with block closes the file object and emit() returns
TelEmitReturn(w) ==
    /\ pcT[w] = "closing"
    /\ wbuf[w] = <<>>
    /\ pcT' = [pcT EXCEPT ![w] = "idle"]
    /\ UNCHANGED <<logger, file, file0, emit_log, wbuf>>

\* the events passed to emit
EventChoices ==
    {build_event(<<"7">>, Rat(4, 5), None),
     build_event(<<"7">>, RInt(1), Some(<<"a">>)),
     build_event(<<"8">>, Rat(12, 25), Some(<<NL>>)),
     build_event(<<"8">>, Rat(-3, 2), Some(<<QUOTE>>)),
     build_event(<<"7">>, Rat(1, 5), Some(<<BACKSLASH, "n">>)),
     build_event(<<"8">>, RInt(0), Some(<<EACUTE>>)),
     build_event(<<>>, RInt(10), Some(<<>>))}

\* the log file before the loggers are constructed: missing or empty, or
\* holding the line of an earlier run
FileChoices == {<<>>, line_of(build_event(<<"0">>, RInt(1), None))}

-----------------------------------------------------------------------------
(* build_point_cloud, reduce_dimensions and compute_tda                    *)
(* (src/src/tda/tda_pipeline.py)                                           *)
(*                                                                         *)
(* An activation map is a sequence of layers, each None or an array of     *)
(* rows x hidden values; all arrays share the hidden size.  A row is       *)
(* identified by its position <<layer, row>>, its values are left out.     *)

AbsentLayer == [present |-> FALSE, rows |-> 0]
Layer(rows) == [present |-> TRUE, rows |-> rows]

ActivationMap(layers, hidden) == [layers |-> layers, hidden |-> hidden]

\* np.concatenate(points, axis=0) over the layers that are not None
RECURSIVE concat_rows(_, _)
concat_rows(layers, l) ==
    IF l > Len(layers) THEN <<>>
    ELSE (IF layers[l].present
          THEN [r \in 1..layers[l].rows |-> <<l, r>>] ELSE <<>>)
         \o concat_rows(layers, l + 1)

\* np.empty((0, 0))
EmptyCloud == [rows |-> <<>>, hidden |-> 0]

\* mutant: np.random.choice(n, size=k) drawing with replacement
choice_with_replacement(n, k) == [1..k -> 1..n]

\* np.random.choice(n, size=k, replace=False): the index arrays it can
\* return (the generator is not seeded here)
choice_without_replacement(n, k) ==
    {idx \in [1..k -> 1..n] : \A a, b \in 1..k : a # b => idx[a] # idx[b]}

\* build_point_cloud: the clouds it can return
build_point_cloud(activations, max_points) ==
    IF activations.layers = <<>>
       \/ \A l \in DOMAIN activations.layers : ~activations.layers[l].present
    THEN {EmptyCloud}
    ELSE LET cloud == concat_rows(activations.layers, 1)
         IN  IF Len(cloud) > max_points
             THEN {[rows |-> [a \in 1..max_points |-> cloud[idx[a]]],
                    hidden |-> activations.hidden] :
                        idx \in choice_without_replacement(Len(cloud), max_points)}
             ELSE {[rows |-> cloud, hidden |-> activations.hidden]}

\* ndarray.size
cloud_size(cloud) == Len(cloud.rows) * cloud.hidden

TdaNone == [kind |-> "none"]
TdaRaises(error) == [kind |-> "raised", error |-> error]
TdaReturns(betti_0, betti_1) ==
    [kind |-> "result", betti_0 |-> betti_0, betti_1 |-> betti_1]

Min(a, b) == IF a <= b THEN a ELSE b

\* reduce_dimensions: PCA(n_components).fit_transform raises ValueError
\* unless n_components <= min(n_samples, n_features)
reduce_dimensions_raises(cloud, n_components) ==
    cloud_size(cloud) # 0 /\ n_components > Min(Len(cloud.rows), cloud.hidden)

\* compute_tda: the outcomes it can have; ripser's H0 diagram has at most one
\* bar per point and its H1 diagram any number of bars
compute_tda(activations, max_points) ==
    UNION {IF cloud_size(cloud) = 0 THEN {TdaNone}
           ELSE IF reduce_dimensions_raises(cloud, 3) THEN {TdaRaises("ValueError")}
           ELSE {TdaReturns(b0, b1) : b0 \in 1..Len(cloud.rows), b1 \in 0..1} :
               cloud \in build_point_cloud(activations, max_points)}

\* activation maps of up to MaxLayers layers with up to MaxRows rows each,
\* hidden sizes below and above the 3 components of the PCA
LayerChoices == {AbsentLayer} \cup {Layer(n) : n \in 0..MaxRows}

ActivationMaps ==
    {ActivationMap(layers, hidden) :
        layers \in SeqsUpTo(LayerChoices, MaxLayers), hidden \in {1, 3, 8}}

\* max_points: small values and the default
MaxPointsChoices == {2, 3, 512}

NoTdaCall == [activations |-> ActivationMap(<<>>, 1), max_points |-> 512]

-----------------------------------------------------------------------------
(* ContextualAllostasisEngine (src/src/control/cae_engine.py)              *)

DefaultPrompt == "You are a helpful research assistant."

\* self.state_prompts.get(key, default) on a dict given as a set of <<key, value>>
PromptGet(state_prompts, key) ==
    IF \E kv \in state_prompts : kv[1] = key
    THEN (CHOOSE kv \in state_prompts : kv[1] = key)[2]
    ELSE DefaultPrompt

CAEOutput(state, risk_score, raw_score, avg_score, system_prompt, temperature_scale) ==
    [state |-> state, risk_score |-> risk_score, raw_score |-> raw_score,
     avg_score |-> avg_score, system_prompt |-> system_prompt,
     temperature_scale |-> temperature_scale]

\* mutant: the anchors are encoded even when the list is empty
encode_anchors_always(anchors, sentence_transformers) ==
    IF sentence_transformers THEN "encoded" ELSE "none"

\* self.anchor_embeddings after __init__: set only with anchors configured and
\* the sentence_transformers import successful
encode_anchors(anchors, sentence_transformers) ==
    IF anchors # <<>> /\ sentence_transformers THEN "encoded" ELSE "none"

\* the engine after __init__(config); sentence_transformers tells whether the
\* module-level import succeeded
ContextualAllostasisEngine(anchors, sentence_transformers, window, decay, state_prompts) ==
    [anchors |-> anchors,
     anchor_embeddings |-> encode_anchors(anchors, sentence_transformers),
     yellow_threshold |-> Rat(35, 100),
     red_threshold |-> Rat(55, 100),
     window |-> window,
     decay |-> decay,
     state_prompts |-> state_prompts,
     state |-> "GREEN",
     smoothed_risk |-> RInt(0),
     history |-> <<>>]

\* history[-window:]
LastWindow(history, window) ==
    IF window = 0 \/ Len(history) <= window THEN history
    ELSE SubSeq(history, Len(history) - window + 1, Len(history))

RECURSIVE RSum(_)
RSum(q) == IF q = <<>> THEN RInt(0) ELSE RAdd(Head(q), RSum(Tail(q)))

\* float(np.mean(history))
Mean(history) == RDiv(RSum(history), RInt(Len(history)))

\* evaluate(text), raw being the largest similarity the embedder finds between
\* the text and an anchor; gives the engine afterwards and the CAEOutput
evaluate(self, text, raw) ==
    IF text = "" \/ self.anchor_embeddings = "none"
    THEN [engine |-> self,
          out |-> CAEOutput("GREEN", RInt(0), RInt(0), RInt(0),
                            PromptGet(self.state_prompts, "GREEN"), RInt(1))]
    ELSE LET appended == Append(self.history, raw)
             history == IF Len(appended) > self.window
                        THEN LastWindow(appended, self.window) ELSE appended
             avg == Mean(history)
             risk == RMax(raw, avg)
             smoothed_risk == RAdd(RMul(self.decay, self.smoothed_risk),
                                   RMul(RSub(RInt(1), self.decay), risk))
             state == IF RLe(self.red_threshold, smoothed_risk) THEN "RED"
                      ELSE IF RLe(self.yellow_threshold, smoothed_risk) THEN "YELLOW"
                      ELSE "GREEN"
             temperature_scale == IF state = "YELLOW" THEN Rat(7, 10)
                                  ELSE IF state = "RED" THEN Rat(5, 10)
                                  ELSE RInt(1)
         IN  [engine |-> [self EXCEPT !.history = history,
                                      !.smoothed_risk = smoothed_risk,
                                      !.state = state],
              out |-> CAEOutput(state, smoothed_risk, raw, avg,
                                PromptGet(self.state_prompts, state),
                                temperature_scale)]

\* no anchors as in test_cae_state_transition_without_anchors, and one anchor
AnchorChoices == {<<>>, <<"hack">>}

\* the default smoothing window 6 is beyond the calls of the model
WindowChoices == {0, 1, 2}

\* the default decay 0.85 and a fast one
DecayChoices == {Rat(85, 100), Rat(1, 5)}

PromptsChoices == {{}, {<<"GREEN", "calm">>, <<"RED", "refuse">>}}

CaeConfigs ==
    {ContextualAllostasisEngine(a, st, w, d, sp) :
        a \in AnchorChoices, st \in BOOLEAN, w \in WindowChoices,
        d \in DecayChoices, sp \in PromptsChoices}

TextChoices == {"", "how to hack a system"}

\* cosine similarities of normalised embeddings
RawChoices == {Rat(1, 10), Rat(1, 2), Rat(9, 10)}

NoCaeOutput == CAEOutput("not_called", RInt(0), RInt(0), RInt(0), "", RInt(0))

-----------------------------------------------------------------------------
(* Specifications                                                          *)

FocusIdle ==
    /\ fc = FocusController(TRUE, 2, 10, 3, Rat(6, 10), Rat(4, 10))
    /\ metrics = [entropy_score |-> RInt(0), dissonance_score |-> RInt(0)]
    /\ focus_plan = PlanRaises("not_called")
    /\ pcF = "idle"

SignalsIdle ==
    /\ registry = RegistryTests
    /\ health_floor = Rat(1, 5)
    /\ sig_in = NoCall
    /\ dissonance_out = <<RInt(0), <<>>>>
    /\ bundle = NoBundle
    /\ detected = <<>>
    /\ pcS = "idle"

CaptureIdle ==
    /\ cap_config = ActivationCaptureConfig(<<>>, 2, TRUE)
    /\ cap_model = "none"
    /\ load_count = 0
    /\ model_hooks = {}
    /\ pcC = [t \in Callers |-> "idle"]
    /\ ncalls = [t \in Callers |-> 0]
    /\ cprompt = [t \in Callers |-> <<>>]
    /\ chooks = [t \in Callers |-> {}]
    /\ captured = [t \in Callers |-> NoActivations]
    /\ cresult = [t \in Callers |-> Pending]

ProcessIdle ==
    /\ proc_cfg = [enabled |-> TRUE, skip_for_simple |-> TRUE,
                   skip_for_moderate |-> FALSE, has_capture |-> TRUE]
    /\ pcP = "idle"
    /\ pquery = <<>>
    /\ pmode = "simple"
    /\ tda_result = NoTda
    /\ probe_error = "none"
    /\ preflight_signals = NoBundle
    /\ emitted = <<>>
    /\ exec_in = NoExecIn
    /\ exec_locals = NoExecLocals
    /\ gen_calls = <<>>

TelemetryIdle ==
    /\ logger = [flush_immediately |-> TRUE]
    /\ file = <<>>
    /\ file0 = <<>>
    /\ emit_log = <<>>
    /\ pcT = [w \in Writers |-> "idle"]
    /\ wbuf = [w \in Writers |-> <<>>]

CaeIdle ==
    /\ cae = ContextualAllostasisEngine(<<>>, FALSE, 2, Rat(85, 100), {})
    /\ cae_text = ""
    /\ cae_out = NoCaeOutput
    /\ cae_calls = 0

ChordIdle ==
    /\ chord_in = << <<>>, <<>> >>
    /\ chord_out = NoChordOut

QueryIdle ==
    /\ qpc = [q \in Queries |-> "idle"]
    /\ qmode = [q \in Queries |-> "simple"]
    /\ qprobed = [q \in Queries |-> FALSE]
    /\ event_log = <<>>

HookIdle ==
    /\ hook_cfg = [capture_tokens |-> 32, token_stride |-> 1,
                   layers |-> ActivationCaptureConfig(<<>>, 2, TRUE)]
    /\ hook_seq = 0
    /\ hook_passes = 0
    /\ hook_captured = NoCaptured
    /\ pcH = "registered"

TdaIdle ==
    /\ tda_in = NoTdaCall
    /\ tda_out = TdaNone
    /\ tda_first = TdaNone
    /\ pcTda = "idle"

InitFocus ==
    /\ QueryIdle
    /\ HookIdle
    /\ fc \in FocusConfigs
    /\ metrics = [entropy_score |-> RInt(0), dissonance_score |-> RInt(0)]
    /\ focus_plan = PlanRaises("not_called")
    /\ pcF = "idle"
    /\ SignalsIdle
    /\ TelemetryIdle
    /\ TdaIdle
    /\ ChordIdle
    /\ CaeIdle
    /\ CaptureIdle
    /\ ProcessIdle

\* one call controller.plan({"entropy_score": e, "dissonance_score": d})
PlanCall ==
    \E e \in ScoreChoices, d \in ScoreChoices :
        LET m == [entropy_score |-> e, dissonance_score |-> d]
        IN  /\ pcF = "idle"
            /\ metrics' = m
            /\ focus_plan' = plan(fc, m)
            /\ pcF' = "planned"
            /\ UNCHANGED <<fc, signalVars, captureVars, processVars, telemetryVars, tdaVars, chordVars, caeVars, hookVars, queryVars>>

NextFocus == PlanCall

SpecFocus == InitFocus /\ [][NextFocus]_vars

\* the controller with its float arithmetic in binary64
InitFocusBinary64 ==
    /\ QueryIdle
    /\ HookIdle
    /\ fc \in FocusRangeConfigs
    /\ metrics = [entropy_score |-> RInt(0), dissonance_score |-> RInt(0)]
    /\ focus_plan = PlanRaises("not_called")
    /\ pcF = "idle"
    /\ SignalsIdle
    /\ TelemetryIdle
    /\ TdaIdle
    /\ ChordIdle
    /\ CaeIdle
    /\ CaptureIdle
    /\ ProcessIdle

\* one call controller.plan({"entropy_score": e, "dissonance_score": d})
PlanCallBinary64 ==
    \E e \in UnitScores, d \in UnitScores :
        LET m == [entropy_score |-> e, dissonance_score |-> d]
        IN  /\ pcF = "idle"
            /\ metrics' = m
            /\ focus_plan' = plan64(fc, m)
            /\ pcF' = "planned"
            /\ UNCHANGED <<fc, signalVars, captureVars, processVars, telemetryVars, tdaVars, chordVars, caeVars, hookVars, queryVars>>

NextFocusBinary64 == PlanCallBinary64

SpecFocusBinary64 == InitFocusBinary64 /\ [][NextFocusBinary64]_vars

InitSignals ==
    /\ QueryIdle
    /\ HookIdle
    /\ fc \in SignalControllers
    /\ metrics = [entropy_score |-> RInt(0), dissonance_score |-> RInt(0)]
    /\ focus_plan = PlanRaises("not_called")
    /\ pcF = "idle"
    /\ registry \in RegistryChoices
    /\ health_floor \in FloorChoices
    /\ sig_in = NoCall
    /\ dissonance_out = <<RInt(0), <<>>>>
    /\ bundle = NoBundle
    /\ detected = <<>>
    /\ pcS = "idle"
    /\ TelemetryIdle
    /\ TdaIdle
    /\ ChordIdle
    /\ CaeIdle
    /\ CaptureIdle
    /\ ProcessIdle

\* one call registry.evaluate_dissonance(concepts)
EvaluateDissonanceCall ==
    \E concepts \in SeqsUpTo(NameSet, MaxConcepts) :
        /\ pcS = "idle"
        /\ sig_in' = [NoCall EXCEPT !.concepts = concepts]
        /\ dissonance_out' = evaluate_dissonance(registry, concepts)
        /\ pcS' = "evaluated"
        /\ UNCHANGED <<focusVars, captureVars, processVars, telemetryVars, tdaVars, chordVars, caeVars, hookVars, queryVars, registry, health_floor, bundle, detected>>

\* one call compute_signals(query, trace, tda_result, registry, controller, floor)
ComputeSignalsCall ==
    \E query \in QueryChoices, trace \in TraceChoices, tda \in TdaChoices :
        /\ pcS = "idle"
        /\ sig_in' = [query |-> query, reasoning_trace |-> trace,
                      tda_result |-> tda, concepts |-> <<>>]
        /\ bundle' = compute_signals(query, trace, tda, registry, fc, health_floor)
        /\ pcS' = "computed"
        /\ UNCHANGED <<focusVars, captureVars, processVars, telemetryVars, tdaVars, chordVars, caeVars, hookVars, queryVars, registry, health_floor, dissonance_out, detected>>

NextSignals == EvaluateDissonanceCall \/ ComputeSignalsCall

SpecSignals == InitSignals /\ [][NextSignals]_vars

\* evaluate_dissonance alone, over more rule configurations
InitDissonance ==
    /\ QueryIdle
    /\ HookIdle
    /\ FocusIdle
    /\ TelemetryIdle
    /\ TdaIdle
    /\ ChordIdle
    /\ CaeIdle
    /\ CaptureIdle
    /\ ProcessIdle
    /\ registry \in DissonanceRegistries
    /\ health_floor = Rat(1, 5)
    /\ sig_in = NoCall
    /\ dissonance_out = <<RInt(0), <<>>>>
    /\ bundle = NoBundle
    /\ detected = <<>>
    /\ pcS = "idle"

NextDissonance == EvaluateDissonanceCall

SpecDissonance == InitDissonance /\ [][NextDissonance]_vars

\* detect_concepts alone, over every ontology of the model
InitDetect ==
    /\ QueryIdle
    /\ HookIdle
    /\ FocusIdle
    /\ TelemetryIdle
    /\ TdaIdle
    /\ ChordIdle
    /\ CaeIdle
    /\ CaptureIdle
    /\ ProcessIdle
    /\ registry \in ChordRegistries
    /\ health_floor = Rat(1, 5)
    /\ sig_in = NoCall
    /\ dissonance_out = <<RInt(0), <<>>>>
    /\ bundle = NoBundle
    /\ detected = <<>>
    /\ pcS = "idle"

\* one call registry.detect_concepts(text)
DetectConceptsCall ==
    \E text \in QueryChoices :
        /\ pcS = "idle"
        /\ sig_in' = [NoCall EXCEPT !.query = text]
        /\ detected' = detect_concepts(registry, text)
        /\ pcS' = "detected"
        /\ UNCHANGED <<focusVars, captureVars, processVars, telemetryVars, tdaVars, chordVars, caeVars, hookVars, queryVars, registry, health_floor, dissonance_out, bundle>>

NextDetect == DetectConceptsCall

SpecDetect == InitDetect /\ [][NextDetect]_vars

\* callers sharing one ActivationCapture object (and so one loaded model)
InitCapture ==
    /\ QueryIdle
    /\ HookIdle
    /\ FocusIdle
    /\ SignalsIdle
    /\ TelemetryIdle
    /\ TdaIdle
    /\ ChordIdle
    /\ CaeIdle
    /\ ProcessIdle
    /\ cap_config \in CaptureConfigs
    /\ cap_model = "none"
    /\ load_count = 0
    /\ model_hooks = {}
    /\ pcC = [t \in Callers |-> "idle"]
    /\ ncalls = [t \in Callers |-> 0]
    /\ cprompt = [t \in Callers |-> <<>>]
    /\ chooks = [t \in Callers |-> {}]
    /\ captured = [t \in Callers |-> NoActivations]
    /\ cresult = [t \in Callers |-> Pending]

CaptureCall ==
    \E t \in Callers, prompt \in PromptChoices :
        CapCall(t, prompt) /\ UNCHANGED <<focusVars, signalVars, processVars, telemetryVars, tdaVars, chordVars, caeVars, hookVars, queryVars>>

LoadCheck ==
    \E t \in Callers : CapLoadCheck(t) /\ UNCHANGED <<focusVars, signalVars, processVars, telemetryVars, tdaVars, chordVars, caeVars, hookVars, queryVars>>

LoadFinish ==
    \E t \in Callers : CapLoadFinish(t) /\ UNCHANGED <<focusVars, signalVars, processVars, telemetryVars, tdaVars, chordVars, caeVars, hookVars, queryVars>>

Register ==
    \E t \in Callers : CapRegister(t) /\ UNCHANGED <<focusVars, signalVars, processVars, telemetryVars, tdaVars, chordVars, caeVars, hookVars, queryVars>>

Forward ==
    \E t \in Callers : CapForward(t) /\ UNCHANGED <<focusVars, signalVars, processVars, telemetryVars, tdaVars, chordVars, caeVars, hookVars, queryVars>>

GenerateEnd ==
    \E t \in Callers : CapGenerateEnd(t) /\ UNCHANGED <<focusVars, signalVars, processVars, telemetryVars, tdaVars, chordVars, caeVars, hookVars, queryVars>>

RemoveAndReturn ==
    \E t \in Callers : CapRemoveAndReturn(t) /\ UNCHANGED <<focusVars, signalVars, processVars, telemetryVars, tdaVars, chordVars, caeVars, hookVars, queryVars>>

NextCapture ==
    \/ CaptureCall \/ LoadCheck \/ LoadFinish \/ Register
    \/ Forward \/ GenerateEnd \/ RemoveAndReturn

SpecCapture == InitCapture /\ [][NextCapture]_vars

\* capture() and load() calls made one after the other on one
\* ActivationCapture: a call starts only when no other call is in progress
NoCallInProgress == \A t \in Callers : pcC[t] \in {"idle", "done"}

CaptureCallInSequence ==
    /\ NoCallInProgress
    /\ CaptureCall

LoadCallInSequence ==
    /\ NoCallInProgress
    /\ \E t \in Callers :
          CapLoadCall(t) /\ UNCHANGED <<focusVars, signalVars, processVars, telemetryVars, tdaVars, chordVars, caeVars, hookVars, queryVars>>

NextCaptureSequential ==
    \/ CaptureCallInSequence \/ LoadCallInSequence \/ LoadCheck \/ LoadFinish
    \/ Register \/ Forward \/ GenerateEnd \/ RemoveAndReturn

SpecCaptureSequential == InitCapture /\ [][NextCaptureSequential]_vars

\* one capture call from the registration of its hooks to its return, seen
\* from the hooks: every forward pass of generate() runs each hook once
InitHook ==
    /\ QueryIdle
    /\ FocusIdle
    /\ SignalsIdle
    /\ TelemetryIdle
    /\ TdaIdle
    /\ ChordIdle
    /\ CaeIdle
    /\ CaptureIdle
    /\ ProcessIdle
    /\ hook_cfg \in HookConfigs
    /\ hook_seq = 0
    /\ hook_passes = 0
    /\ hook_captured = NoCaptured
    /\ pcH = "registered"

\* a forward pass: the first one runs over the prompt, a later one over the
\* newest position alone (with the key-value cache) or over one position more
HookForward ==
    /\ pcH \in {"registered", "generating"}
    /\ hook_passes < MaxPasses
    /\ \E n \in (IF hook_passes = 0 THEN 1..MaxSeqLen ELSE {1, hook_seq + 1}) :
          /\ hook_seq' = n
          /\ hook_captured' =
                 [l \in SeqToSet(selected_indices(hook_cfg.layers)) |->
                     hook_fn(hook_cfg, n)]
    /\ hook_passes' = hook_passes + 1
    /\ pcH' = "generating"
    /\ UNCHANGED <<hook_cfg, focusVars, signalVars, captureVars, processVars,
                   telemetryVars, tdaVars, chordVars, caeVars, queryVars>>

\* generate() returns, the hooks are removed and the trace is returned
HookReturn ==
    /\ pcH = "generating"
    /\ pcH' = "returned"
    /\ UNCHANGED <<hook_cfg, hook_seq, hook_passes, hook_captured, focusVars,
                   signalVars, captureVars, processVars, telemetryVars,
                   tdaVars, chordVars, caeVars, queryVars>>

NextHook == HookForward \/ HookReturn

SpecHook == InitHook /\ [][NextHook]_vars

\* the process() calls of several queries on one pipeline, overlapping in
\* any way, seen from the telemetry log
InitQueries ==
    /\ FocusIdle
    /\ SignalsIdle
    /\ TelemetryIdle
    /\ TdaIdle
    /\ ChordIdle
    /\ CaeIdle
    /\ HookIdle
    /\ CaptureIdle
    /\ proc_cfg \in {cfg \in ProcessConfigs : cfg.has_capture /\ ~cfg.skip_for_moderate}
    /\ pcP = "idle"
    /\ pquery = <<>>
    /\ pmode = "simple"
    /\ tda_result = NoTda
    /\ probe_error = "none"
    /\ preflight_signals = NoBundle
    /\ emitted = <<>>
    /\ exec_in = NoExecIn
    /\ exec_locals = NoExecLocals
    /\ gen_calls = <<>>
    /\ qpc = [q \in Queries |-> "idle"]
    /\ qmode = [q \in Queries |-> "simple"]
    /\ qprobed = [q \in Queries |-> FALSE]
    /\ event_log = <<>>

QueryFrame ==
    UNCHANGED <<focusVars, signalVars, captureVars, processVars,
                telemetryVars, tdaVars, chordVars, caeVars, hookVars>>

QueryProcessCall ==
    \E q \in Queries, mode \in {"simple", "moderate", "executive"} :
        QueryCall(q, mode) /\ QueryFrame

QueryPreflightFast ==
    \E q \in Queries :
        QueryEmit(q, "preflight_fast", "preflight_fast", "probe") /\ QueryFrame

QueryProbeCall ==
    \E q \in Queries : QueryProbe(q) /\ QueryFrame

QueryPreflight ==
    \E q \in Queries :
        QueryEmit(q, "memory", "preflight", route(qmode[q])) /\ QueryFrame

QueryStandardFinal ==
    \E q \in Queries : QueryEmit(q, "standard", "final", "done") /\ QueryFrame

QueryAnalysis ==
    \E q \in Queries :
        QueryEmit(q, "executive", "analysis", "reasoning") /\ QueryFrame

QuerySelfCheck ==
    \E q \in Queries :
        QueryEmit(q, "reasoning", "self_check", "self_checked") /\ QueryFrame

QueryExecutiveFinal ==
    \E q \in Queries :
        QueryEmit(q, "self_checked", "final", "done") /\ QueryFrame

QueryException ==
    \E q \in Queries : QueryRaises(q) /\ QueryFrame

NextQueries ==
    \/ QueryProcessCall \/ QueryPreflightFast \/ QueryProbeCall
    \/ QueryPreflight \/ QueryStandardFinal \/ QueryAnalysis
    \/ QuerySelfCheck \/ QueryExecutiveFinal \/ QueryException

SpecQueries == InitQueries /\ [][NextQueries]_vars

\* one pipeline instance processing one query; its probe is caller 1 of its
\* ActivationCapture
InitProcess ==
    /\ QueryIdle
    /\ HookIdle
    /\ fc \in ProcessControllers
    /\ metrics = [entropy_score |-> RInt(0), dissonance_score |-> RInt(0)]
    /\ focus_plan = PlanRaises("not_called")
    /\ pcF = "idle"
    /\ SignalsIdle
    /\ TelemetryIdle
    /\ TdaIdle
    /\ ChordIdle
    /\ CaeIdle
    /\ cap_config \in CaptureConfigs
    /\ cap_model = "none"
    /\ load_count = 0
    /\ model_hooks = {}
    /\ pcC = [t \in Callers |-> "idle"]
    /\ ncalls = [t \in Callers |-> 0]
    /\ cprompt = [t \in Callers |-> <<>>]
    /\ chooks = [t \in Callers |-> {}]
    /\ captured = [t \in Callers |-> NoActivations]
    /\ cresult = [t \in Callers |-> Pending]
    /\ proc_cfg \in ProcessConfigs
    /\ pcP = "idle"
    /\ pquery = <<>>
    /\ pmode = "simple"
    /\ tda_result = NoTda
    /\ probe_error = "none"
    /\ preflight_signals = NoBundle
    /\ emitted = <<>>
    /\ exec_in = NoExecIn
    /\ exec_locals = NoExecLocals
    /\ gen_calls = <<>>

NextProcess ==
    \/ ProcessCall \/ EmitPreflightFast \/ ProbeStart
    \/ LoadCheck \/ LoadFinish \/ Register \/ Forward \/ GenerateEnd
    \/ RemoveAndReturn
    \/ ProbeFinish \/ EmitPreflight \/ StandardFinal \/ EmitAnalysis
    \/ RefinePass \/ RefineLoopExit \/ ExecutiveFinal

SpecProcess == InitProcess /\ [][NextProcess]_vars

\* _executive_reasoning taken alone: process() has classified the query as
\* executive, skipped the activation probe (activation capture disabled),
\* computed the preflight signals and emitted the preflight event
InitExecutive ==
    /\ QueryIdle
    /\ HookIdle
    /\ fc \in ProcessControllers
    /\ metrics = [entropy_score |-> RInt(0), dissonance_score |-> RInt(0)]
    /\ focus_plan = PlanRaises("not_called")
    /\ pcF = "idle"
    /\ SignalsIdle
    /\ TelemetryIdle
    /\ TdaIdle
    /\ ChordIdle
    /\ CaeIdle
    /\ CaptureIdle
    /\ proc_cfg = [enabled |-> FALSE, skip_for_simple |-> TRUE,
                   skip_for_moderate |-> FALSE, has_capture |-> FALSE]
    /\ pcP = "executive"
    /\ pquery \in {<<>>, <<"Execute", "plan">>, <<"lie", "Truth">>}
    /\ pmode = "executive"
    /\ tda_result = NoTda
    /\ probe_error = "none"
    /\ preflight_signals = Signals(pquery, <<>>, NoTda)
    /\ emitted = <<TelemetryEvent("q", "preflight", "executive",
                                  Signals(pquery, <<>>, NoTda), NoTda,
                                  "preflight_probe")>>
    /\ exec_in = NoExecIn
    /\ exec_locals = NoExecLocals
    /\ gen_calls = <<>>

NextExecutive == EmitAnalysis \/ RefinePass \/ RefineLoopExit \/ ExecutiveFinal

SpecExecutive == InitExecutive /\ [][NextExecutive]_vars

\* the loop is synchronous code: a pass that can be taken is taken, and the
\* loop is left once its range is exhausted
SpecExecutiveFair ==
    SpecExecutive /\ WF_vars(RefinePass) /\ WF_vars(RefineLoopExit)

\* pipeline instances, each with its own TelemetryLogger on the same path,
\* calling emit() concurrently
InitTelemetry ==
    /\ QueryIdle
    /\ HookIdle
    /\ FocusIdle
    /\ SignalsIdle
    /\ CaptureIdle
    /\ ProcessIdle
    /\ TdaIdle
    /\ ChordIdle
    /\ CaeIdle
    /\ logger \in [flush_immediately : BOOLEAN]
    /\ file0 \in FileChoices
    /\ file = file0
    /\ emit_log = <<>>
    /\ pcT = [w \in Writers |-> "idle"]
    /\ wbuf = [w \in Writers |-> <<>>]

EmitCall ==
    \E w \in Writers, event \in EventChoices :
        TelEmitCall(w, event)
        /\ UNCHANGED <<focusVars, signalVars, captureVars, processVars, tdaVars, chordVars, caeVars, hookVars, queryVars>>

RawWrite ==
    \E w \in Writers :
        TelRawWrite(w) /\ UNCHANGED <<focusVars, signalVars, captureVars, processVars, tdaVars, chordVars, caeVars, hookVars, queryVars>>

FlushReturn ==
    \E w \in Writers :
        TelFlushReturn(w) /\ UNCHANGED <<focusVars, signalVars, captureVars, processVars, tdaVars, chordVars, caeVars, hookVars, queryVars>>

EmitReturn ==
    \E w \in Writers :
        TelEmitReturn(w) /\ UNCHANGED <<focusVars, signalVars, captureVars, processVars, tdaVars, chordVars, caeVars, hookVars, queryVars>>

NextTelemetry == EmitCall \/ RawWrite \/ FlushReturn \/ EmitReturn

SpecTelemetry == InitTelemetry /\ [][NextTelemetry]_vars

\* emit() calls made one after the other: a call starts only when no other
\* call is in progress
EmitCallInSequence ==
    /\ \A w \in Writers : pcT[w] = "idle"
    /\ EmitCall

NextTelemetrySequential ==
    EmitCallInSequence \/ RawWrite \/ FlushReturn \/ EmitReturn

SpecTelemetrySequential == InitTelemetry /\ [][NextTelemetrySequential]_vars

\* one call of build_point_cloud or compute_tda
InitCae ==
    /\ QueryIdle
    /\ HookIdle
    /\ FocusIdle
    /\ SignalsIdle
    /\ TelemetryIdle
    /\ TdaIdle
    /\ ChordIdle
    /\ CaptureIdle
    /\ ProcessIdle
    /\ cae \in CaeConfigs
    /\ cae_text = ""
    /\ cae_out = NoCaeOutput
    /\ cae_calls = 0

\* one call cae.evaluate(text)
EvaluateCall ==
    \E text \in TextChoices, raw \in RawChoices :
        /\ cae_calls < MaxEvaluations
        /\ LET r == evaluate(cae, text, raw)
           IN  /\ cae' = r.engine
               /\ cae_out' = r.out
        /\ cae_text' = text
        /\ cae_calls' = cae_calls + 1
        /\ UNCHANGED <<focusVars, signalVars, captureVars, processVars,
                       telemetryVars, tdaVars, chordVars, hookVars, queryVars>>

NextCae == EvaluateCall

SpecCae == InitCae /\ [][NextCae]_vars

InitChord ==
    /\ QueryIdle
    /\ HookIdle
    /\ FocusIdle
    /\ TelemetryIdle
    /\ TdaIdle
    /\ CaeIdle
    /\ CaptureIdle
    /\ ProcessIdle
    /\ registry \in ChordRegistries
    /\ health_floor = Rat(1, 5)
    /\ sig_in = NoCall
    /\ dissonance_out = <<RInt(0), <<>>>>
    /\ bundle = NoBundle
    /\ detected = <<>>
    /\ pcS = "idle"
    /\ chord_in \in ChordLists \X ChordLists
    /\ chord_out = NoChordOut

\* one call registry.chord_product(concepts) on A, on B, or on A + B
ChordProductCall ==
    \E which \in {"a", "b", "ab"} :
        /\ chord_out[which] = <<>>
        /\ chord_out' = [chord_out EXCEPT
                ![which] = <<chord_product(registry, ChordArg(chord_in, which))>>]
        /\ UNCHANGED <<chord_in, focusVars, signalVars, captureVars, processVars,
                       telemetryVars, tdaVars, caeVars, hookVars, queryVars>>

NextChord == ChordProductCall

SpecChord == InitChord /\ [][NextChord]_vars

InitTda ==
    /\ QueryIdle
    /\ HookIdle
    /\ FocusIdle
    /\ SignalsIdle
    /\ TelemetryIdle
    /\ CaptureIdle
    /\ ProcessIdle
    /\ ChordIdle
    /\ CaeIdle
    /\ tda_in \in [activations : ActivationMaps, max_points : MaxPointsChoices]
    /\ tda_out = TdaNone
    /\ tda_first = TdaNone
    /\ pcTda = "idle"

BuildPointCloudCall ==
    /\ pcTda = "idle"
    /\ \E cloud \in build_point_cloud(tda_in.activations, tda_in.max_points) :
          tda_out' = [kind |-> "cloud", cloud |-> cloud]
    /\ pcTda' = "cloud"
    /\ UNCHANGED <<tda_in, tda_first, focusVars, signalVars, captureVars,
                   processVars, telemetryVars, chordVars, caeVars, hookVars, queryVars>>

ComputeTdaCall ==
    /\ pcTda = "idle"
    /\ tda_out' \in compute_tda(tda_in.activations, tda_in.max_points)
    /\ pcTda' = "tda"
    /\ UNCHANGED <<tda_in, tda_first, focusVars, signalVars, captureVars,
                   processVars, telemetryVars, chordVars, caeVars, hookVars, queryVars>>

NextTda == BuildPointCloudCall \/ ComputeTdaCall

SpecTda == InitTda /\ [][NextTda]_vars

\* a second build_point_cloud call with the arguments of the first; whatever
\* ran in between has left the global generator of np.random in some state
BuildPointCloudAgain ==
    /\ pcTda = "cloud"
    /\ tda_first' = tda_out
    /\ \E cloud \in build_point_cloud(tda_in.activations, tda_in.max_points) :
          tda_out' = [kind |-> "cloud", cloud |-> cloud]
    /\ pcTda' = "cloud_again"
    /\ UNCHANGED <<tda_in, focusVars, signalVars, captureVars, processVars,
                   telemetryVars, chordVars, caeVars, hookVars, queryVars>>

NextTdaRepeat == BuildPointCloudCall \/ BuildPointCloudAgain

SpecTdaRepeat == InitTda /\ [][NextTdaRepeat]_vars

-----------------------------------------------------------------------------
(* Claims about FocusController                                            *)

\* C1: for every configuration with min_depth <= base_depth <= max_depth and
\* every metrics input, plan() returns a FocusPlan whose depth is an integer
\* in [min_depth, max_depth], enabled or disabled.
C1_PlanDepthWithinBounds ==
    (pcF = "planned" /\ fc.min_depth <= fc.base_depth
                     /\ fc.base_depth <= fc.max_depth)
    => /\ focus_plan.raised = "none"
       /\ focus_plan.depth \in Int
       /\ fc.min_depth <= focus_plan.depth
       /\ focus_plan.depth <= fc.max_depth

\* C2: a disabled controller returns the constant plan depth = base_depth,
\* temperature_scale = 1.0, max_tokens_scale = 1.0,
\* reason = "entropy_valve_disabled", whatever entropy and dissonance are.
C2_DisabledPlanConstant ==
    (pcF = "planned" /\ ~fc.enabled)
    => focus_plan = [raised |-> "none", depth |-> fc.base_depth,
                     temperature_scale |-> <<1, 1>>,
                     max_tokens_scale |-> <<1, 1>>,
                     reason |-> <<"entropy_valve_disabled">>]

\* a disabled controller has planned for high entropy and dissonance scores
C2_Witness ==
    /\ pcF = "planned" /\ ~fc.enabled
    /\ metrics.entropy_score = <<9, 10>> /\ metrics.dissonance_score = <<2, 1>>
    /\ focus_plan.depth = fc.base_depth /\ fc.base_depth # fc.max_depth

\* the configuration meets the claim's precondition
RangesOrdered(c) ==
    /\ 0 <= c.min_depth /\ c.min_depth <= c.max_depth
    /\ RLt(RInt(0), c.throttle_temperature_min)
    /\ RLe(c.throttle_temperature_min, c.throttle_temperature_max)
    /\ RLe(c.throttle_temperature_max, RInt(1))
    /\ RLe(c.max_tokens_scale_min, c.max_tokens_scale_max)

\* C19: for an enabled controller with 0 <= min_depth <= max_depth,
\* 0 < temperature_min <= temperature_max <= 1 and max_tokens_scale_min <=
\* max_tokens_scale_max, every plan has temperature_min <= temperature_scale
\* <= temperature_max and max_tokens_scale_min <= max_tokens_scale <=
\* max_tokens_scale_max.
C19_ScalesWithinConfiguredRanges ==
    (pcF = "planned" /\ fc.enabled /\ RangesOrdered(fc))
    => /\ focus_plan.raised = "none"
       /\ FLe(FFromRat(fc.throttle_temperature_min), focus_plan.temperature_scale)
       /\ FLe(focus_plan.temperature_scale, FFromRat(fc.throttle_temperature_max))
       /\ FLe(FFromRat(fc.max_tokens_scale_min), focus_plan.max_tokens_scale)
       /\ FLe(focus_plan.max_tokens_scale, FFromRat(fc.max_tokens_scale_max))

-----------------------------------------------------------------------------
(* Claims about chord_product                                              *)

\* the primes of the ontology are pairwise distinct and above 1
PrimesDistinctAboveOne(reg) ==
    \A i, j \in DOMAIN reg.concepts :
        /\ reg.concepts[i].prime > 1
        /\ i # j => reg.concepts[i].prime # reg.concepts[j].prime

\* every name of the list is a concept of the ontology
AllKnown(reg, concepts) ==
    \A i \in DOMAIN concepts : ConceptGet(reg, concepts[i]) # <<>>

ChordCalled == chord_out.a # <<>> /\ chord_out.b # <<>> /\ chord_out.ab # <<>>

\* C16: with pairwise distinct primes above 1 and disjoint lists A and B of
\* known concept names, chord_product(A + B) = chord_product(A) *
\* chord_product(B); the product of A + B is never below the product of A, and
\* it is strictly above it when B adds a known concept that A does not hold.
C16_ChordProductMultiplicative ==
    (/\ ChordCalled
     /\ PrimesDistinctAboveOne(registry)
     /\ AllKnown(registry, chord_in[1]) /\ AllKnown(registry, chord_in[2])
     /\ SeqToSet(chord_in[1]) \cap SeqToSet(chord_in[2]) = {})
    => /\ chord_out.ab[1] = chord_out.a[1] * chord_out.b[1]
       /\ chord_out.ab[1] >= chord_out.a[1]
       /\ chord_in[2] # <<>> => chord_out.ab[1] > chord_out.a[1]

\* ["Execute"] and ["Truth"] under the ontology of the tests: 2 * 7 = 14
C16_Witness ==
    /\ ChordCalled
    /\ registry = RegistryTests
    /\ chord_in = << <<"Execute">>, <<"Truth">> >>
    /\ chord_out.ab = <<14>>

RECURSIVE ProductOfPrimes(_, _)
\* the product of the primes of a set of known concept names
ProductOfPrimes(reg, names) ==
    IF names = {} THEN 1
    ELSE LET n == CHOOSE x \in names : TRUE
         IN  ConceptGet(reg, n)[1].prime * ProductOfPrimes(reg, names \ {n})

KnownNames(reg, concepts) ==
    {n \in SeqToSet(concepts) : ConceptGet(reg, n) # <<>>}

\* C17: chord_product(concepts) is the product of the primes of the known
\* concepts named in the input, each name counted once however often it
\* occurs; unknown names are ignored and the empty input gives 1.
C17_ChordProductOfDistinctNames ==
    \A which \in {"a", "b", "ab"} :
        chord_out[which] # <<>>
        => chord_out[which][1] =
               ProductOfPrimes(registry, KnownNames(registry, ChordArg(chord_in, which)))

-----------------------------------------------------------------------------
(* Claims about compute_signals and evaluate_dissonance                    *)

\* C3 as stated: every SignalBundle has health_score >= the configured floor
\* and health_score <= 1, for every configured floor value.
C3_HealthWithinFloorAndOne ==
    pcS = "computed"
    => RLe(health_floor, bundle.health_score) /\ RLe(bundle.health_score, RInt(1))

\* C3 amended: health_score >= the configured floor for every floor, and
\* health_score <= 1 whenever the configured floor is <= 1; with a floor above
\* 1 the health_score is the floor itself.
C3_HealthAtLeastFloor ==
    pcS = "computed"
    => /\ RLe(health_floor, bundle.health_score)
       /\ RLe(health_floor, RInt(1)) => RLe(bundle.health_score, RInt(1))
       /\ RLt(RInt(1), health_floor) => bundle.health_score = health_floor

\* the floor 0.2 has lifted a raw health of 1 - (0.6 * 1 + 0.4 * 1) = 0
C3_Witness ==
    /\ pcS = "computed" /\ health_floor = <<1, 5>>
    /\ bundle.entropy_score = <<1, 1>> /\ bundle.dissonance_score = <<1, 1>>
    /\ bundle.health_score = <<1, 5>>

\* C4: evaluate_dissonance returns a score in [0, 1] for every concept list
\* and rule configuration, and exactly 0 for the empty list.
C4_DissonanceScoreInUnitInterval ==
    pcS = "evaluated"
    => /\ RLe(RInt(0), dissonance_out[1]) /\ RLe(dissonance_out[1], RInt(1))
       /\ sig_in.concepts = <<>> => dissonance_out[1] = <<0, 1>>

\* ["Execute"] triggers two events: the base is capped at 1 and two harmony
\* hits take 0.2 off
C4_Witness ==
    /\ pcS = "evaluated"
    /\ sig_in.concepts = <<"Execute">>
    /\ Len(dissonance_out[2]) > Len(sig_in.concepts)
    /\ dissonance_out[1] = <<4, 5>>

\* C5: entropy_score, the blended dissonance_score and harmony_key_distance
\* of every SignalBundle lie in [0, 1].
C5_SignalsInUnitInterval ==
    pcS = "computed"
    => \A x \in {bundle.entropy_score, bundle.dissonance_score,
                 bundle.harmony_key_distance} :
           RLe(RInt(0), x) /\ RLe(x, RInt(1))

\* a persistence entropy above the reference scale 3.0 and chord frequencies
\* far from the harmony key: entropy and distance are clamped, the blend too
C5_Witness ==
    /\ pcS = "computed"
    /\ sig_in.tda_result.present
    /\ RLt(RInt(3), sig_in.tda_result.persistence_entropy)
    /\ bundle.entropy_score = <<1, 1>>
    /\ bundle.harmony_key_distance = <<1, 1>>
    /\ bundle.dissonance_score = <<1, 1>>

\* the concepts of a requires rule whose companion list names an absent concept
RequiresViolated(reg, concepts_set) ==
    {reg.rules.requires[i][1] : i \in
        {k \in DOMAIN reg.rules.requires :
            /\ reg.rules.requires[k][1] \in concepts_set
            /\ \E r \in DOMAIN reg.rules.requires[k][2] :
                   reg.rules.requires[k][2][r] \notin concepts_set}}

\* the forbidden pairs with both members present
ForbidsViolated(reg, concepts_set) ==
    {reg.rules.forbids[i] : i \in
        {k \in DOMAIN reg.rules.forbids :
            /\ Len(reg.rules.forbids[k]) = 2
            /\ reg.rules.forbids[k][1] \in concepts_set
            /\ reg.rules.forbids[k][2] \in concepts_set}}

\* every violation has its event in the returned list
ViolationEventsReturned ==
    LET concepts_set == SeqToSet(sig_in.concepts)
        events == SeqToSet(dissonance_out[2])
    IN  /\ \A c \in RequiresViolated(registry, concepts_set) :
               \E e \in events : /\ e.rule = "requires"
                                 /\ e.detail[1] = c /\ e.detail[2] = "missing"
        /\ \A pair \in ForbidsViolated(registry, concepts_set) :
               DissonanceEvent("forbids", <<pair[1], "conflicts with", pair[2]>>)
                   \in events

RuleViolated ==
    LET concepts_set == SeqToSet(sig_in.concepts)
    IN  \/ RequiresViolated(registry, concepts_set) # {}
        \/ ForbidsViolated(registry, concepts_set) # {}

\* the harmony bonus min(0.3, 0.1 * harmony_hits) of the concept list
HarmonyBonus ==
    LET hits == Cardinality({i \in DOMAIN registry.rules.harmony_sets :
                    registry.rules.harmony_sets[i] \subseteq SeqToSet(sig_in.concepts)})
    IN  RMin(Rat(3, 10), Rat(hits, 10))

\* C18 as stated: whenever the concept list triggers a rule violation (a
\* requires rule with an absent companion, or both members of a forbidden
\* pair), evaluate_dissonance returns a score > 0 together with the violation's
\* event, for every rule configuration including its harmony sets.
C18_ViolationScoresPositive ==
    (pcS = "evaluated" /\ RuleViolated)
    => /\ RLt(RInt(0), dissonance_out[1])
       /\ ViolationEventsReturned

\* C18 amended: whenever the concept list triggers a rule violation,
\* evaluate_dissonance returns the violation's event, and the score is > 0
\* exactly when the number of events per list entry exceeds the harmony bonus
\* min(0.3, 0.1 * harmony_hits); covered harmony sets can cancel the score.
C18_ViolationReported ==
    (pcS = "evaluated" /\ RuleViolated)
    => /\ ViolationEventsReturned
       /\ RLt(RInt(0), dissonance_out[1])
          <=> RLt(HarmonyBonus, Rat(Len(dissonance_out[2]), Len(sig_in.concepts)))

\* a forbidden pair among four concepts that cover three harmony sets: the
\* event is returned and the score is max(0, 0.25 - 0.3) = 0
C18_Witness ==
    /\ pcS = "evaluated"
    /\ registry = RegistryHarmonic
    /\ sig_in.concepts = <<"Authorization", "Deception", "Execute", "Truth">>
    /\ dissonance_out[2] = <<DissonanceEvent("forbids",
                                <<"Deception", "conflicts with", "Truth">>)>>
    /\ dissonance_out[1] = <<0, 1>>

\* the positions of the requires rules the concept list triggers
TriggeredRequires ==
    {k \in DOMAIN registry.rules.requires :
        /\ registry.rules.requires[k][1] \in SeqToSet(sig_in.concepts)
        /\ \E r \in DOMAIN registry.rules.requires[k][2] :
               registry.rules.requires[k][2][r] \notin SeqToSet(sig_in.concepts)}

\* the positions of the configured forbidden pairs with both members present
TriggeredForbids ==
    {k \in DOMAIN registry.rules.forbids :
        /\ Len(registry.rules.forbids[k]) = 2
        /\ registry.rules.forbids[k][1] \in SeqToSet(sig_in.concepts)
        /\ registry.rules.forbids[k][2] \in SeqToSet(sig_in.concepts)}

\* C21: evaluate_dissonance emits exactly one "requires" event for each
\* requires rule whose concept is present and at least one of whose companions
\* is absent (its detail naming the concept and the missing companions),
\* exactly one "forbids" event for each configured forbidden pair with both
\* members present, and no other events.
C21_OneEventPerViolation ==
    pcS = "evaluated"
    => LET events == dissonance_out[2]
           concepts_set == SeqToSet(sig_in.concepts)
           requires == registry.rules.requires
           forbids == registry.rules.forbids
       IN  /\ Len(events) = Cardinality(TriggeredRequires)
                            + Cardinality(TriggeredForbids)
           /\ \A k \in TriggeredRequires :
                  Cardinality({i \in DOMAIN events :
                      /\ events[i].rule = "requires"
                      /\ events[i].detail =
                             <<requires[k][1], "missing">>
                             \o SelectSeq(requires[k][2],
                                          LAMBDA req : req \notin concepts_set)}) = 1
           /\ \A k \in TriggeredForbids :
                  Cardinality({i \in DOMAIN events :
                      /\ events[i].rule = "forbids"
                      /\ events[i].detail =
                             <<forbids[k][1], "conflicts with", forbids[k][2]>>})
                  = Cardinality({j \in TriggeredForbids : forbids[j] = forbids[k]})

\* Execute lacks both of its two companions and sits in a forbidden pair with
\* itself: one requires event naming both companions, one forbids event, and
\* nothing for the malformed three-member entry
C21_Witness ==
    /\ pcS = "evaluated"
    /\ registry = RegistryDense
    /\ sig_in.concepts = <<"Execute">>
    /\ dissonance_out[2] =
           <<DissonanceEvent("requires",
                 <<"Execute", "missing", "Authorization", "Truth">>),
             DissonanceEvent("forbids",
                 <<"Execute", "conflicts with", "Execute">>)>>

\* the score evaluate_dissonance gives for the concepts stored in the bundle
RuleScore == evaluate_dissonance(registry, bundle.concepts)[1]

\* C22: every SignalBundle is internally consistent: its dissonance_score is
\* min(1, rule score + 0.5 * harmony_key_distance), its health_score is
\* max(floor, min(1, 1 - (0.6 * entropy_score + 0.4 * dissonance_score))) of
\* that blended value, its entropy_score is 0 when no TDAResult was given, and
\* its focus_plan is the controller's plan for the entropy_score and
\* dissonance_score stored in the same bundle.
C22_BundleConsistent ==
    pcS = "computed"
    => /\ bundle.dissonance_score =
              RMin(RInt(1), RAdd(RuleScore,
                                 RMul(Rat(1, 2), bundle.harmony_key_distance)))
       /\ bundle.health_score =
              RMax(health_floor,
                   RMin(RInt(1),
                        RSub(RInt(1),
                             RAdd(RMul(Rat(6, 10), bundle.entropy_score),
                                  RMul(Rat(4, 10), bundle.dissonance_score)))))
       /\ ~sig_in.tda_result.present => bundle.entropy_score = <<0, 1>>
       /\ bundle.focus_plan =
              plan(fc, [entropy_score |-> bundle.entropy_score,
                        dissonance_score |-> bundle.dissonance_score])

\* no TDAResult, a rule violation and chord frequencies off the harmony key:
\* the stored dissonance is above the rule score, and the enabled controller
\* planned a depth that the rule score alone would not have given
C22_Witness ==
    /\ pcS = "computed"
    /\ ~sig_in.tda_result.present
    /\ fc.enabled
    /\ RLt(RInt(0), RuleScore)
    /\ RLt(RuleScore, bundle.dissonance_score)
    /\ RLt(bundle.dissonance_score, RInt(1))
    /\ bundle.focus_plan.raised = "none"
    /\ bundle.focus_plan.depth #
           plan(fc, [entropy_score |-> bundle.entropy_score,
                     dissonance_score |-> RuleScore]).depth

\* the concepts with at least one keyword that is a word of the text,
\* compared in lower case
KeywordMatches(reg, text) ==
    {reg.concepts[c].name : c \in
        {k \in DOMAIN reg.concepts :
            \E w \in DOMAIN reg.concepts[k].keywords, i \in DOMAIN text :
                Lower(reg.concepts[k].keywords[w]) = Lower(text[i])}}

\* C23: detect_concepts(text) returns, sorted ascending and without
\* duplicates, exactly the concepts that have at least one keyword occurring in
\* the text as a whole word, case-insensitively, also when two concepts list
\* the same keyword; an empty text yields an empty list.
C23_DetectsEveryKeywordMatch ==
    pcS = "detected"
    => /\ detected = SortedNames(KeywordMatches(registry, sig_in.query))
       /\ sig_in.query = <<>> => detected = <<>>

-----------------------------------------------------------------------------
(* Claims about ActivationCapture and the probe boundary                   *)

\* C6: if activation capture (model load, layer resolution, generation) or
\* compute_tda raises during a query, the failure is caught at the probe
\* boundary: the probe result is absent, the signal bundles of the query have
\* entropy_score 0, its telemetry events carry an empty tda map, and
\* processing goes on to the query's final telemetry event without aborting.
C6_ProbeFailureDegradesGracefully ==
    probe_error # "none"
    => /\ ~tda_result.present
       /\ pcP # "aborted"
       /\ \A i \in DOMAIN emitted :
             /\ emitted[i].tda = {}
             /\ emitted[i].metrics.entropy_score = <<0, 1>>
       /\ pcP \in {"standard", "executive", "reasoning", "calibrate", "done"}
             => preflight_signals.entropy_score = <<0, 1>>
       /\ pcP = "done"
             => emitted # <<>> /\ emitted[Len(emitted)].stage = "final"

\* an executive query whose generation call raised has reached its final event
C6_Witness ==
    /\ probe_error = "generate"
    /\ pmode = "executive"
    /\ pcP = "done"
    /\ Len(emitted) = 5
    /\ emitted[5].stage = "final" /\ emitted[5].tda = {}

\* C9: two concurrent capture calls on the same loaded model do not corrupt
\* each other's hook registrations: a returned trace holds only activations
\* of its own generation call, and the hooks a call registered stay registered
\* until that call removes them itself.
C9_ConcurrentCapturesIsolated ==
    \A t \in Callers :
        /\ cresult[t].kind = "trace"
              => \A l \in DOMAIN captured[t] :
                     captured[t][l].gen = <<t, ncalls[t]>>
        /\ pcC[t] \in {"generate", "generating", "remove"}
              => chooks[t] \subseteq model_hooks

\* none of the configured capture layer indices resolves to a layer
NoLayerResolves(cfg) ==
    \A i \in DOMAIN capture_layers_or_default(cfg) :
        LET raw == capture_layers_or_default(cfg)[i]
            idx == IF raw < 0 THEN cfg.n_layers + raw ELSE raw
        IN  ~(0 <= idx /\ idx < cfg.n_layers)

Returned(t) == pcC[t] = "done" /\ cresult[t].kind \in {"none", "trace"}

\* C10 as stated: capture(prompt) returns None when the prompt is empty, and
\* also when none of the configured capture layer indices resolves.
C10_NoneOnEmptyPromptOrNoLayer ==
    \A t \in Callers :
        (Returned(t) /\ (cprompt[t] = <<>> \/ NoLayerResolves(cap_config)))
        => cresult[t].kind = "none"

\* C10 amended: a capture(prompt) call that returns gives None when the prompt
\* is empty; for a non-empty prompt none of whose configured layer indices
\* resolves it gives an ActivationTrace with an empty activations map.
C10_NoneOnEmptyPromptOnly ==
    \A t \in Callers :
        Returned(t)
        => /\ cprompt[t] = <<>> => cresult[t].kind = "none"
           /\ (cprompt[t] # <<>> /\ NoLayerResolves(cap_config))
                 => (cresult[t].kind = "trace" /\ DOMAIN captured[t] = {})

\* a call with a non-empty prompt and no resolving layer index has returned a
\* trace, while another call on the same object returned None for an empty prompt
C10_Witness ==
    \E t, u \in Callers :
        /\ Returned(t) /\ cprompt[t] # <<>> /\ NoLayerResolves(cap_config)
        /\ cresult[t].kind = "trace" /\ DOMAIN captured[t] = {}
        /\ Returned(u) /\ cprompt[u] = <<>> /\ cresult[u].kind = "none"

\* C11: across a sequence of capture() and load() calls on one
\* ActivationCapture the model is loaded at most once; once a load has
\* succeeded the model stays loaded and a later call loads nothing
C11_ModelLoadedAtMostOnce ==
    /\ load_count <= 1
    /\ (cap_model = "loaded") <=> (load_count = 1)
    /\ cap_model = "loaded" => \A t \in Callers : pcC[t] \notin {"loading", "loading_only"}

\* C11 witness: a direct load() loaded the model, and a later capture()
\* returned a trace without loading again
C11_Witness ==
    /\ load_count = 1
    /\ \E t, u \in Callers :
          /\ cresult[t] = LoadReturns /\ pcC[t] = "done"
          /\ cresult[u] = ReturnsTrace /\ pcC[u] = "done"

\* a capture call with an empty prompt is in progress
EmptyPromptCallInProgress(t) ==
    /\ pcC[t] \in {"load", "loading", "loaded"}
    /\ cprompt[t] = <<>>

\* C24: capture called with an empty prompt is a no-op: no step of the call
\* loads the model or tokenizer, registers a hook or starts a generation, the
\* call ends by returning None, and the capture object's state stays what it
\* was before the call.
C24_EmptyPromptChangesNothing ==
    [][\A t \in Callers :
         EmptyPromptCallInProgress(t)
         => /\ cap_model' = cap_model
            /\ load_count' = load_count
            /\ model_hooks' = model_hooks
            /\ pcC'[t] \notin {"generate", "generating"}
            /\ pcC'[t] = "done" => cresult'[t] = ReturnsNone]_vars

\* the layer indices of the configuration that resolve against the model
ResolvedLayers(cfg) ==
    {idx \in 0..(cfg.n_layers - 1) :
        \E i \in DOMAIN capture_layers_or_default(cfg) :
            LET raw == capture_layers_or_default(cfg)[i]
            IN  idx = (IF raw < 0 THEN cfg.n_layers + raw ELSE raw)}

\* C26: every matrix of a returned ActivationTrace holds at most
\* capture_tokens rows, all of them among the last capture_tokens positions of
\* the tapped layer's output and a stride apart, for every configured
\* capture_tokens >= 0 and stride, and the trace has an entry only for layer
\* indices that resolved against the model.
C26_AtMostCaptureTokensRows ==
    pcH = "returned"
    => \A l \in DOMAIN hook_captured :
           LET rows == hook_captured[l]
               stride == IF 1 < hook_cfg.token_stride
                         THEN hook_cfg.token_stride ELSE 1
           IN  /\ Len(rows) <= hook_cfg.capture_tokens
               /\ \A i \in DOMAIN rows :
                      /\ hook_seq - hook_cfg.capture_tokens <= rows[i]
                      /\ rows[i] < hook_seq
                      /\ i > 1 => rows[i] = rows[i - 1] + stride
               /\ l \in ResolvedLayers(hook_cfg.layers)

\* C28: when a capture call has ended, by returning a trace or by an
\* exception raised from the generation call, none of the forward hooks it
\* registered is still registered on the model, so a generation of a later
\* call never runs a hook of an earlier call.
C28_HooksRemovedWhenCallEnds ==
    \A t \in Callers :
        pcC[t] = "done" => \A h \in model_hooks : h.owner # t

-----------------------------------------------------------------------------
(* Claims about the executive reasoning loop                               *)

\* the focus refinement passes performed so far for the query
RefinePasses ==
    Cardinality({k \in DOMAIN gen_calls : gen_calls[k].stage = "refine"})

InExecutiveReasoning ==
    pmode = "executive" /\ pcP \in {"reasoning", "calibrate", "done"}

C13_GenerationScaledByPlan ==
    \A k \in DOMAIN gen_calls :
        LET g == gen_calls[k]
            fplan == preflight_signals.focus_plan
        IN  /\ g.temperature.passed
            /\ g.max_tokens.passed
            /\ g.temperature.value =
                  RMul(RMul(exec_in.temperature, fplan.temperature_scale),
                       exec_in.safety_scale)
            /\ RInt(g.max_tokens.value) =
                  RMul(RInt(exec_in.max_tokens), fplan.max_tokens_scale)

-----------------------------------------------------------------------------
(* Claims about the telemetry stages of process()                          *)

\* the stages of the events carrying the id of query q, in log order
StagesOf(q) ==
    LET mine == SelectSeq(event_log, LAMBDA e : e.query_id = q)
    IN  [i \in DOMAIN mine |-> mine[i].stage]

\* C27: for every query that process() completes, the events carrying its id
\* are, in this order: preflight_fast (present exactly when the activation
\* probe was run), preflight, then final alone in simple or moderate mode, or
\* analysis, self_check, final in executive mode; so there is exactly one
\* final event and it is the query's last, also when the events of several
\* queries interleave in the log.
C27_StagesInFixedOrder ==
    \A q \in Queries :
        qpc[q] = "done"
        => StagesOf(q) =
               (IF qprobed[q] THEN <<"preflight_fast">> ELSE <<>>)
               \o <<"preflight">>
               \o (IF qmode[q] \in {"simple", "moderate"} THEN <<"final">>
                   ELSE <<"analysis", "self_check", "final">>)

\* an executive query with a probe and a simple query without one have both
\* completed, the simple query's two events lying between the executive
\* query's self_check and final events
C27_Witness ==
    /\ qpc = [q \in Queries |-> "done"]
    /\ qmode[1] = "executive" /\ qprobed[1]
    /\ qmode[2] = "simple" /\ ~qprobed[2]
    /\ Len(event_log) = 7
    /\ event_log[4] = StageEvent(1, "self_check")
    /\ event_log[5] = StageEvent(2, "preflight")
    /\ event_log[6] = StageEvent(2, "final")
    /\ event_log[7] = StageEvent(1, "final")

-----------------------------------------------------------------------------
(* Claims about the TDA pipeline                                           *)

\* the rows of the input, in layer order
InputRows == concat_rows(tda_in.activations.layers, 1)

\* C14: compute_tda returns None exactly when the point cloud is empty, and
\* on every activation map with at least one row it returns a result with
\* betti_0 >= 0 and betti_1 >= 0 instead of raising
C14_ComputeTdaTotalOnNonEmpty ==
    pcTda = "tda"
    => /\ (tda_out.kind = "none") <=> (InputRows = <<>>)
       /\ InputRows # <<>>
             => /\ tda_out.kind = "result"
                /\ tda_out.betti_0 >= 0
                /\ tda_out.betti_1 >= 0

\* C15: build_point_cloud returns min(total rows, max_points) rows: all rows
\* in layer order when they fit, else max_points rows of the input with no
\* row position taken twice; empty input gives the empty cloud
C15_PointCloudSize ==
    pcTda = "cloud"
    => LET rows == tda_out.cloud.rows
       IN  /\ Len(rows) = Min(Len(InputRows), tda_in.max_points)
           /\ Len(InputRows) <= tda_in.max_points => rows = InputRows
           /\ \A a \in DOMAIN rows : \E b \in DOMAIN InputRows : rows[a] = InputRows[b]
           /\ \A a, b \in DOMAIN rows : a # b => rows[a] # rows[b]
           /\ (\A l \in DOMAIN tda_in.activations.layers :
                  ~tda_in.activations.layers[l].present)
                 => tda_out.cloud = EmptyCloud

\* C15 witness: 5 rows in two layers are cut down to 3, not in layer order
C15_Witness ==
    /\ pcTda = "cloud"
    /\ Len(InputRows) = 5
    /\ tda_in.max_points = 3
    /\ Len(tda_out.cloud.rows) = 3
    /\ tda_out.cloud.rows[1] = <<2, 2>>
    /\ tda_out.cloud.rows[2] = <<1, 1>>

\* C25: downsampling is seeded and therefore reproducible: two calls of
\* build_point_cloud on the same activation map and max_points select the same
\* rows, whatever ran in between.
C25_DownsamplingReproducible ==
    pcTda = "cloud_again" => tda_out = tda_first

-----------------------------------------------------------------------------
(* Claims about ContextualAllostasisEngine                                 *)

\* C20: with no threat anchors configured, evaluate returns state GREEN with
\* risk_score 0 and temperature_scale 1.0 for every text, and the engine's
\* stored state, smoothed risk and history stay as __init__ set them, after
\* any number of calls.
C20_NoAnchorsAlwaysGreen ==
    (cae.anchors = <<>> /\ cae_calls > 0)
    => /\ cae_out.state = "GREEN"
       /\ cae_out.risk_score = <<0, 1>>
       /\ cae_out.temperature_scale = <<1, 1>>
       /\ cae.state = "GREEN"
       /\ cae.smoothed_risk = <<0, 1>>
       /\ cae.history = <<>>

\* the engine of test_cae_state_transition_without_anchors after two calls,
\* the last one with the test's text
C20_Witness ==
    /\ cae.anchors = <<>>
    /\ cae_calls = 2
    /\ cae_text = "how to hack a system"
    /\ cae_out.state = "GREEN"
    /\ cae.history = <<>>

\* C29: after any sequence of evaluate calls the raw-score history is never
\* longer than the configured smoothing window, for every configured window
\* value >= 0.
C29_HistoryWithinWindow ==
    Len(cae.history) <= cae.window

\* C30: after every evaluate call the state and temperature_scale of the
\* returned output agree with the engine's stored state (1.0 for GREEN, 0.7 for
\* YELLOW, 0.5 for RED), and the stored state is the threshold classification
\* of the stored smoothed risk, also for calls with empty text made after the
\* engine reached YELLOW or RED.
C30_OutputAgreesWithStoredState ==
    cae_calls > 0
    => /\ cae_out.state = cae.state
       /\ cae_out.temperature_scale =
              (IF cae.state = "YELLOW" THEN <<7, 10>>
               ELSE IF cae.state = "RED" THEN <<1, 2>> ELSE <<1, 1>>)
       /\ cae.state =
              (IF RLe(cae.red_threshold, cae.smoothed_risk) THEN "RED"
               ELSE IF RLe(cae.yellow_threshold, cae.smoothed_risk) THEN "YELLOW"
               ELSE "GREEN")

-----------------------------------------------------------------------------
(* Claims about TelemetryLogger                                            *)

\* what the emit calls added to the file
Added == SubSeq(file, Len(file0) + 1, Len(file))

AllWritersIdle == \A w \in Writers : pcT[w] = "idle"

\* C7: with concurrent emit calls on one log file, every line added to the
\* file is the complete record of one emit call, never a mix of the records
\* of different writers or a part of a record
C7_ConcurrentEmitsWholeLines ==
    LET lines == complete_lines(Added)
    IN  \A i \in DOMAIN lines :
            \E k \in DOMAIN emit_log : lines[i] = to_json(emit_log[k])

\* the part of the file after its last line terminator
RECURSIVE after_last_newline(_, _)
after_last_newline(content, cur) ==
    IF content = <<>> THEN cur
    ELSE IF Head(content) = NL THEN after_last_newline(Tail(content), <<>>)
    ELSE after_last_newline(Tail(content), Append(cur, Head(content)))

\* C8: with emit calls made in sequence the log is append-only: the file is
\* its content before the calls followed by one line per emit in call order,
\* each line the JSON of that call's event and parsing back to the same
\* query_id, metrics.health_score and notes; a call in progress has added
\* only a prefix of its own line, and nothing earlier changes
C8_AppendOnlyOneLinePerEmit ==
    LET lines == complete_lines(Added)
        rest == after_last_newline(Added, <<>>)
    IN  /\ IsPrefix(file0, file)
        /\ Len(lines) <= Len(emit_log)
        /\ \A i \in DOMAIN lines :
              /\ lines[i] = to_json(emit_log[i])
              /\ from_json(lines[i]) =
                    [ok |-> TRUE, query_id |-> emit_log[i].query_id,
                     health_score |-> emit_log[i].metrics.health_score,
                     notes |-> emit_log[i].notes]
        /\ AllWritersIdle => Len(lines) = Len(emit_log)
        /\ IF Len(lines) = Len(emit_log) THEN rest = <<>>
           ELSE /\ Len(lines) + 1 = Len(emit_log)
                /\ IsPrefix(rest, to_json(emit_log[Len(emit_log)]))

\* C8 witness: two emits have returned on a log that already held a line;
\* the first event's notes hold a line break, which the line carries escaped
C8_Witness ==
    /\ AllWritersIdle
    /\ file0 # <<>>
    /\ Len(emit_log) = 2
    /\ emit_log[1].notes = Some(<<NL>>)
    /\ Len(complete_lines(Added)) = 2
    /\ from_json(complete_lines(Added)[1]).notes = Some(<<NL>>)
    /\ from_json(complete_lines(Added)[2]).health_score = Rat(-3, 2)

====
